---- MODULE Spec2Model ----
(***************************************************************************)
(* Serving-coordination layer of the nomenclature ML service:              *)
(*   - PriorityScheduler (ml_service/priority_scheduler.py)                *)
(*   - MlRepository      (ml_service/repository.py)                        *)
(*   - MonitoringStore   (ml_service/monitoring/store.py) and the          *)
(*     RequestTracker of ml_service/service.py                             *)
(*   - ReferenceDatasetManager (ml_service/dataset_manager.py)             *)
(*   - NomenclatureClassifier  (ml_service/model.py)                       *)
(*   - FeatureStore      (ml_service/feature_store.py)                     *)
(* Each component has its own specification over the shared variables.     *)
(***************************************************************************)
EXTENDS Integers, Sequences, FiniteSets, TLC

(***************************************************************************)
(* Bounds of the model.                                                    *)
(***************************************************************************)
MaxTasks == 3

\* Worker threads that can exist (max_workers is chosen among 1..2).
WorkerIds == {1, 2}

\* Request threads calling submit(); priorities they pass.
Clients == {"c1", "c2"}
Priorities == {1, 5}

\* Repository calls begun in one run: persist_dataset calls, and calls of
\* save_model_version / activate_model.
MaxPersists == 3
MaxCalls == 4

\* Threads calling the repository, and the arguments they pass.
Procs == {"p1", "p2"}
ModelKeys == {"A", "B"}
PersistKeys == {"A"}
Labels == {"v1", "v2"}
DatasetNames == {"ds"}
Ten == [i \in 1 .. 10 |-> "a"]
Seven == [i \in 1 .. 7 |-> "b"]
Payloads == {<<>>, Ten, Seven}

Tasks == 0 .. (MaxTasks - 1)
NoTask == -1
NoEntry == <<0, NoTask>>

VARIABLES
    \* ---- PriorityScheduler fields ----
    max_workers,        \* self.max_workers
    queue,              \* self._queue: set of <<-priority, count>> entries
    task_counter,       \* self._task_counter
    stopping,           \* self._stopping
    active_workers,     \* self._active_workers
    completed_tasks,    \* self._completed_tasks
    error_tasks,        \* self._error_tasks
    future,             \* state of the Future of each task (by count)
    wpc,                \* position of each worker thread in _worker
    wtask,              \* the tuple a worker dequeued and is working on
    cpc,                \* position of each request thread
    ctask,              \* count obtained by the request thread's submit
    cprio,              \* priority argument of the submit in progress
    \* ---- history of a run, recorded by SpecOne only ----
    prio,               \* priority each task was submitted with
    execOrder,          \* tasks in the order their function was started
    firstGetSaw,        \* tasks waiting in the queue at the first dequeue
    \* ---- MlRepository: the SQLite file and the threads using it ----
    db,                 \* committed contents of the tables
    wdb,                \* contents as seen by the connection holding the write lock
    writer,             \* connection holding the write lock (open transaction)
    rpc,                \* position of each thread inside its repository call
    rop,                \* the call a thread is making, with its arguments
    rloc,               \* locals of the call (dataset_id, version_id, model_id)
    rres,               \* outcome of the thread's last call
    rpre,               \* ids the call's dataset/version had when it began
    ncalls,             \* number of repository calls begun
    \* ---- MonitoringStore, predictions_log and the RequestTrackers ----
    requests,           \* rows of monitoring_requests (id = position)
    admin_logs,         \* rows of monitoring_admin_logs
    audit,              \* rows of predictions_log (prediction_id = position)
    clock,              \* datetime.utcnow()
    mret,               \* return value of the last MonitoringStore call
    tpc,                \* position of each thread inside its tracked block
    trk,                \* the RequestTracker object of each thread
    tout,               \* how the thread's last tracked block ended
    \* ---- ReferenceDatasetManager ----
    ref_file,           \* the reference parquet file (self.path)
    mixret,             \* return value of the last mix_for_training call
    \* ---- NomenclatureClassifier and the predict tasks ----
    pipeline,           \* classifier.pipeline (0 is None, else the object's id)
    fitted,             \* pipeline objects that have been fitted
    registry,           \* pipeline objects dumped to the registry directory
    trainpc,            \* position of the training thread inside train()
    ptask,              \* the predict tasks: state and the pipelines they read
    \* ---- FeatureStore ----
    fs_files,           \* <version>.parquet files of the store directory
    fs_index,           \* index.json: the list under "versions"
    fspc,               \* position of each thread inside ingest()
    fsloc,              \* arguments and locals of the ingest in progress
    fs_done,            \* history: the ingest calls that returned, in order of return
    \* ---- DriftMonitor ----
    base_file,          \* drift_baseline.parquet: its table, NoTable when absent
    base_meta,          \* drift_baseline.meta.json
    dpc,                \* position of each thread inside the DriftMonitor
    dloc,               \* arguments and locals of the call in progress
    dret,               \* what the thread's last DriftMonitor call returned
    drift_done,         \* history: the update_baseline call that returned last
    \* ---- poll_workers and monitoring_worker_snapshots ----
    last_snapshot,      \* the poller's local last_snapshot
    worker_snapshots,   \* rows of monitoring_worker_snapshots
    \* ---- endpoints writing the event log and the admin log ----
    system_events,      \* rows of monitoring_events
    resp,               \* what the last endpoint call answered
    \* ---- ReferenceDatasetManager.append_reference ----
    ref_rows,           \* the rows of the reference file (key and payload of each)
    apc,                \* position of each thread inside append_reference
    aloc,               \* locals of the call: its frame and the existing rows it read
    \* ---- MlRepository._ensure_schema ----
    db_schema,          \* per table of the store: whether it exists and its columns
    ens_state,          \* "idle", "running", "done" or "raised"
    ens_pos,            \* index of the next _ensure_column call of the running check
    ens_runs,           \* how many checks have been started on this store
    \* ---- the thread calling PriorityScheduler.shutdown(wait=True) ----
    sdpc,               \* "idle", "join" with the index of the thread joined, or "returned"
    \* ---- NomenclatureClassifier.model_version and the endpoints reading it ----
    model_version,      \* classifier.model_version: 0 is None, n the version of training n
    pver,               \* the version the predict endpoint read for each predict request
    srvpc,              \* position of the request thread inside train or activate_model
    \* ---- train requests of the /train endpoint, one thread each ----
    tr_pc,              \* how far the thread's train request has come
    tr_req,             \* the request the thread is serving
    tr_resp             \* the last response the thread sent

schedVars == <<max_workers, queue, task_counter, stopping, active_workers,
               completed_tasks, error_tasks, future, wpc, wtask,
               cpc, ctask, cprio>>

orderVars == <<prio, execOrder, firstGetSaw>>

repoVars == <<db, wdb, writer, rpc, rop, rloc, rres, rpre, ncalls>>

monVars == <<requests, admin_logs, audit, clock, mret, tpc, trk, tout>>

mixVars == <<ref_file, mixret>>

pipeVars == <<pipeline, fitted, registry, trainpc, ptask>>

fsVars == <<fs_files, fs_index, fspc, fsloc, fs_done>>

driftVars == <<base_file, base_meta, dpc, dloc, dret, drift_done>>

pollVars == <<last_snapshot, worker_snapshots>>

logVars == <<system_events, resp>>

appendVars == <<ref_rows, apc, aloc>>

schemaVars == <<db_schema, ens_state, ens_pos, ens_runs>>

shutVars == <<sdpc>>

verVars == <<model_version, pver, srvpc>>

retryVars == <<tr_pc, tr_req, tr_resp>>

lateVars == <<driftVars, pollVars, logVars, appendVars, schemaVars, shutVars, verVars,
              retryVars>>

restVars == <<monVars, mixVars, pipeVars, fsVars, lateVars>>

vars == <<schedVars, orderVars, repoVars, restVars>>

(***************************************************************************)
(* PriorityQueue: tuples compare lexicographically, get() pops the least.  *)
(* The count is unique, so comparison never reaches func/args/future.      *)
(***************************************************************************)
EntryLess(a, b) == a[1] < b[1] \/ (a[1] = b[1] /\ a[2] < b[2])

\* a plain FIFO Queue instead of the PriorityQueue
QueueGetFifo(q) == CHOOSE e \in q : \A f \in q : e = f \/ e[2] < f[2]

QueueGet(q) == CHOOSE e \in q : \A f \in q : e = f \/ EntryLess(e, f)

\* the priority put on the queue without the negation
QueueEntryPlain(p, count) == <<p, count>>

\* submit() line 64: the tuple put on the queue (priority negated)
QueueEntry(p, count) == <<-p, count>>

Finished == {"RESULT", "EXCEPTION"}

(***************************************************************************)
(* Initial state: after PriorityScheduler.__init__ (workers started).      *)
(***************************************************************************)
InitSched ==
    /\ max_workers \in WorkerIds
    /\ queue = {}
    /\ task_counter = 0
    /\ stopping = FALSE
    /\ active_workers = 0
    /\ completed_tasks = 0
    /\ error_tasks = 0
    /\ future = [t \in Tasks |-> "NONE"]
    /\ prio = [t \in Tasks |-> 0]
    /\ wpc = [w \in WorkerIds |-> IF w <= max_workers THEN "loop" ELSE "absent"]
    /\ wtask = [w \in WorkerIds |-> NoEntry]
    /\ cpc = [c \in Clients |-> "idle"]
    /\ ctask = [c \in Clients |-> NoTask]
    /\ cprio = [c \in Clients |-> 0]
    /\ execOrder = <<>>
    /\ firstGetSaw = {}

(***************************************************************************)
(* MlRepository: tables of the SQLite file.  A row's id is its position    *)
(* (rowid of an INSERT, cursor.lastrowid); rows of datasets,               *)
(* dataset_versions and models are never deleted.                          *)
(***************************************************************************)
NoConn == <<"none", 0>>
NoOp == [op |-> "none", name |-> "", key |-> "", label |-> "", payload |-> <<>>,
         rewrite |-> FALSE, activate |-> FALSE]
NoLoc == [dataset_id |-> 0, version_id |-> 0, model_id |-> 0, nested |-> FALSE]
NoRes == [status |-> "none", dataset_id |-> 0, version_id |-> 0, row_count |-> 0,
          model_id |-> 0]
EmptyDb == [datasets |-> <<>>, versions |-> <<>>, items |-> <<>>, models |-> <<>>]

InitRepo ==
    /\ db = EmptyDb
    /\ wdb = EmptyDb
    /\ writer = NoConn
    /\ rpc = [p \in Procs |-> "idle"]
    /\ rop = [p \in Procs |-> NoOp]
    /\ rloc = [p \in Procs |-> NoLoc]
    /\ rres = [p \in Procs |-> NoRes]
    /\ rpre = [p \in Procs |-> <<0, 0>>]
    /\ ncalls = 0

(***************************************************************************)
(* MonitoringStore (monitoring/store.py) and RequestTracker (service.py).  *)
(* None stands for Python's None / SQL NULL.                               *)
(***************************************************************************)
None == "<None>"
NoProgress == -1
NoTime == -1
Trackers == {"t1", "t2"}
NoTracker == [request_id |-> 0, audit_log_id |-> 0, completed |-> FALSE, exc |-> None,
              detail |-> None, audit_payload |-> FALSE]
NoOutcome == [exit |-> "none", exc |-> None]
NoRet == [kind |-> "None"]

InitMon ==
    /\ requests = <<>>
    /\ admin_logs = <<>>
    /\ audit = <<>>
    /\ clock = 0
    /\ mret = NoRet
    /\ tpc = [t \in Trackers |-> "idle"]
    /\ trk = [t \in Trackers |-> NoTracker]
    /\ tout = [t \in Trackers |-> NoOutcome]

(***************************************************************************)
(* ReferenceDatasetManager (dataset_manager.py).  A frame is the multiset  *)
(* of its rows: the number of rows of each kind (reference rows, and two   *)
(* kinds of client rows); _shuffle_frame only permutes the rows.           *)
(***************************************************************************)
Frame(r, x, y) == [ref |-> r, x |-> x, y |-> y]
EmptyFrame == Frame(0, 0, 0)
NoFile == [exists |-> FALSE, frame |-> EmptyFrame]
NoMix == [kind |-> "none"]

InitMix ==
    /\ ref_file = NoFile
    /\ mixret = NoMix

(***************************************************************************)
(* NomenclatureClassifier (model.py): the pipeline attribute.              *)
(***************************************************************************)
PredictIds == {1, 2}
NoPredict == [state |-> "none", at_submit |-> 0, at_start |-> 0,
              scores_by |-> 0, classes_by |-> 0]

InitPipe ==
    /\ pipeline = 0
    /\ fitted = {}
    /\ registry = {}
    /\ trainpc = "idle"
    /\ ptask = [i \in PredictIds |-> NoPredict]

(***************************************************************************)
(* FeatureStore (feature_store.py).                                        *)
(***************************************************************************)
FsThreads == {"f1", "f2"}
FsVersions == {"v1", "v2"}
NoTable == <<>>
NoIngest == [version |-> None, table |-> NoTable, index |-> <<>>,
             meta |-> [version |-> None, row_count |-> 0, created_at |-> NoTime]]

InitFs ==
    /\ fs_files = [v \in FsVersions |-> NoTable]
    /\ fs_index = <<>>
    /\ fspc = [f \in FsThreads |-> "idle"]
    /\ fsloc = [f \in FsThreads |-> NoIngest]
    /\ fs_done = <<>>

(***************************************************************************)
(* DriftMonitor (drift_monitor.py).                                        *)
(***************************************************************************)
DriftThreads == {"d1", "d2"}
NoMeta == [exists |-> FALSE, version |-> None, row_count |-> 0]
NoDrift == [op |-> "none", items |-> <<>>, version |-> None, baseline |-> NoTable]
NoUpdate == [items |-> <<>>, version |-> None]

InitDrift ==
    /\ base_file = NoTable
    /\ base_meta = NoMeta
    /\ dpc = [d \in DriftThreads |-> "idle"]
    /\ dloc = [d \in DriftThreads |-> NoDrift]
    /\ dret = [d \in DriftThreads |-> NoRet]
    /\ drift_done = NoUpdate

\* poll_workers, line 215: last_snapshot = None
NoSnapshot == [active_workers |-> NoTask, queued_tasks |-> NoTask,
               completed_tasks |-> NoTask, error_tasks |-> NoTask]

InitPoll ==
    /\ last_snapshot = NoSnapshot
    /\ worker_snapshots = <<>>

NoResp == [endpoint |-> "none", kind |-> "none", status |-> "none"]

InitLogs ==
    /\ system_events = <<>>
    /\ resp = NoResp

AppendThreads == {"a1", "a2"}
NoAppend == [frame |-> <<>>, existing |-> <<>>]

InitAppend ==
    /\ ref_rows = [exists |-> FALSE, rows |-> <<>>]
    /\ apc = [a \in AppendThreads |-> "idle"]
    /\ aloc = [a \in AppendThreads |-> NoAppend]

\* The tables MlRepository._ensure_schema looks at and, in call order, the
\* column each _ensure_column call requires (repository.py 55-152).
SchemaTables == {"datasets", "dataset_versions", "training_jobs", "models", "predictions_log"}

RequiredColumns ==
    << <<"datasets", "model_key">>, <<"datasets", "task_type">>,
       <<"datasets", "latest_version_label">>,
       <<"dataset_versions", "row_count">>, <<"dataset_versions", "task_type">>,
       <<"dataset_versions", "dataset_hash">>,
       <<"training_jobs", "model_key">>, <<"training_jobs", "task_type">>,
       <<"models", "task_type">>, <<"models", "model_key">>, <<"models", "status">>,
       <<"models", "accuracy">>, <<"models", "f1_macro">>, <<"models", "confidence">>,
       <<"predictions_log", "request_kind">>, <<"predictions_log", "client_ip">>,
       <<"predictions_log", "user_agent">>, <<"predictions_log", "workers_allocated">>,
       <<"predictions_log", "meta">> >>

RequiredOf(table) ==
    {RequiredColumns[i][2] : i \in {j \in DOMAIN RequiredColumns : RequiredColumns[j][1] = table}}

NoSuchTable == [exists |-> FALSE, columns |-> {}]

Table(columns) == [exists |-> TRUE, columns |-> columns]

\* The store a completed check leaves behind when every table exists.
InitSchema ==
    /\ db_schema = [t \in SchemaTables |-> Table({"id"} \cup RequiredOf(t))]
    /\ ens_state = "idle"
    /\ ens_pos = 1
    /\ ens_runs = 0

NotJoining == [state |-> "idle", thread |-> 0]

InitShutdown == sdpc = NotJoining

NoVersionRead == [read |-> FALSE, version |-> 0]

InitVersion ==
    /\ model_version = 0
    /\ pver = [i \in PredictIds |-> NoVersionRead]
    /\ srvpc = "idle"

NoRequest == [name |-> "", key |-> "", version |-> "", rewrite |-> FALSE, repeat |-> FALSE]
NoResponse == [status |-> 0, stage |-> "", request |-> NoRequest]

InitRetry ==
    /\ tr_pc = [p \in Procs |-> "idle"]
    /\ tr_req = [p \in Procs |-> NoRequest]
    /\ tr_resp = [p \in Procs |-> NoResponse]

InitLateBase ==
    InitDrift /\ InitPoll /\ InitLogs /\ InitAppend /\ InitShutdown /\ InitVersion /\ InitRetry

InitLate == InitLateBase /\ InitSchema

InitRest == InitMon /\ InitMix /\ InitPipe /\ InitFs /\ InitLate

workerVars == <<wpc, wtask>>
clientVars == <<cpc, ctask, cprio>>
counterVars == <<active_workers, completed_tasks, error_tasks>>

(***************************************************************************)
(* submit(): lines 59-61 take the count under the lock, line 64 puts.      *)
(***************************************************************************)
SubmitCount(c, p) ==
    /\ cpc[c] = "idle"
    /\ task_counter < MaxTasks
    /\ ctask' = [ctask EXCEPT ![c] = task_counter]
    /\ task_counter' = task_counter + 1
    /\ cprio' = [cprio EXCEPT ![c] = p]
    /\ cpc' = [cpc EXCEPT ![c] = "put"]
    /\ UNCHANGED <<max_workers, queue, stopping, counterVars, future,
                   workerVars>>

SubmitPut(c) ==
    /\ cpc[c] = "put"
    /\ future' = [future EXCEPT ![ctask[c]] = "PENDING"]
    /\ queue' = queue \cup {QueueEntry(cprio[c], ctask[c])}
    /\ cpc' = [cpc EXCEPT ![c] = "wait"]
    /\ cprio' = [cprio EXCEPT ![c] = 0]
    /\ UNCHANGED <<max_workers, task_counter, stopping, counterVars, workerVars,
                   ctask>>

(***************************************************************************)
(* The caller of submit(): future.result(timeout=...) (service.py 521).    *)
(***************************************************************************)
FutureResult(c) ==
    /\ cpc[c] = "wait"
    /\ future[ctask[c]] \in Finished
    /\ cpc' = [cpc EXCEPT ![c] = "idle"]
    /\ ctask' = [ctask EXCEPT ![c] = NoTask]
    /\ UNCHANGED <<max_workers, queue, task_counter, stopping, counterVars, future, workerVars, cprio>>

FutureTimeoutCancels(c) ==
    /\ cpc[c] = "wait"
    /\ future[ctask[c]] \notin Finished
    /\ cpc' = [cpc EXCEPT ![c] = "idle"]
    /\ future' = [future EXCEPT ![ctask[c]] =
                    IF @ = "PENDING" THEN "CANCELLED" ELSE @]
    /\ ctask' = [ctask EXCEPT ![c] = NoTask]
    /\ UNCHANGED <<max_workers, queue, task_counter, stopping, counterVars, workerVars, cprio>>

\* line 521-522: TimeoutError; the future is left as it is
FutureTimeout(c) ==
    /\ cpc[c] = "wait"
    /\ future[ctask[c]] \notin Finished
    /\ cpc' = [cpc EXCEPT ![c] = "idle"]
    /\ ctask' = [ctask EXCEPT ![c] = NoTask]
    /\ UNCHANGED <<max_workers, queue, task_counter, stopping, counterVars, future, workerVars, cprio>>

(***************************************************************************)
(* _worker(): one action per step of the loop body.                        *)
(***************************************************************************)
\* line 31: while not self._stopping.is_set()
WorkerLoop(w) ==
    /\ wpc[w] = "loop"
    /\ wpc' = [wpc EXCEPT ![w] = IF stopping THEN "exited" ELSE "get"]
    /\ UNCHANGED <<max_workers, queue, task_counter, stopping, counterVars, future, wtask, clientVars>>

\* line 33: self._queue.get(timeout=0.5) returns an item
WorkerGet(w) ==
    /\ wpc[w] = "get"
    /\ queue # {}
    /\ LET e == QueueGet(queue) IN
        /\ queue' = queue \ {e}
        /\ wtask' = [wtask EXCEPT ![w] = e]
    /\ wpc' = [wpc EXCEPT ![w] = "start"]
    /\ UNCHANGED <<max_workers, task_counter, stopping, counterVars, future, clientVars>>

\* lines 34-35: Empty after the timeout, continue
WorkerEmpty(w) ==
    /\ wpc[w] = "get"
    /\ queue = {}
    /\ wpc' = [wpc EXCEPT ![w] = "loop"]
    /\ UNCHANGED <<max_workers, queue, task_counter, stopping, counterVars, future, wtask, clientVars>>

\* lines 36-40: active_workers += 1 under the lock, then
\* future.set_running_or_notify_cancel() and the call of func
WorkerStart(w) ==
    /\ wpc[w] = "start"
    /\ active_workers' = active_workers + 1
    /\ IF future[wtask[w][2]] = "CANCELLED"
       THEN /\ wpc' = [wpc EXCEPT ![w] = "done"]
            /\ UNCHANGED future
       ELSE /\ future' = [future EXCEPT ![wtask[w][2]] = "RUNNING"]
            /\ wpc' = [wpc EXCEPT ![w] = "exec"]
    /\ UNCHANGED <<max_workers, queue, task_counter, stopping, completed_tasks,
                   error_tasks, wtask, clientVars>>

\* lines 40-41: func returns, future.set_result(result)
TaskReturn(w) ==
    /\ wpc[w] = "exec"
    /\ future' = [future EXCEPT ![wtask[w][2]] = "RESULT"]
    /\ wpc' = [wpc EXCEPT ![w] = "count_ok"]
    /\ UNCHANGED <<max_workers, queue, task_counter, stopping, counterVars, wtask, clientVars>>

TaskRaiseKillsWorker(w) ==
    /\ wpc[w] = "exec"
    /\ future' = [future EXCEPT ![wtask[w][2]] = "EXCEPTION"]
    /\ wpc' = [wpc EXCEPT ![w] = "exited"]
    /\ UNCHANGED <<max_workers, queue, task_counter, stopping, counterVars, wtask, clientVars>>

\* lines 44-45: func raises, future.set_exception(exc)
TaskRaise(w) ==
    /\ wpc[w] = "exec"
    /\ future' = [future EXCEPT ![wtask[w][2]] = "EXCEPTION"]
    /\ wpc' = [wpc EXCEPT ![w] = "count_err"]
    /\ UNCHANGED <<max_workers, queue, task_counter, stopping, counterVars, wtask, clientVars>>

\* lines 42-43
WorkerCountCompleted(w) ==
    /\ wpc[w] = "count_ok"
    /\ completed_tasks' = completed_tasks + 1
    /\ wpc' = [wpc EXCEPT ![w] = "done"]
    /\ UNCHANGED <<max_workers, queue, task_counter, stopping, active_workers,
                   error_tasks, future, wtask, clientVars>>

\* a raised task is counted as completed
WorkerCountErrorAsCompleted(w) ==
    /\ wpc[w] = "count_err"
    /\ completed_tasks' = completed_tasks + 1
    /\ wpc' = [wpc EXCEPT ![w] = "done"]
    /\ UNCHANGED <<max_workers, queue, task_counter, stopping, active_workers,
                   error_tasks, future, wtask, clientVars>>

\* lines 46-47
WorkerCountError(w) ==
    /\ wpc[w] = "count_err"
    /\ error_tasks' = error_tasks + 1
    /\ wpc' = [wpc EXCEPT ![w] = "done"]
    /\ UNCHANGED <<max_workers, queue, task_counter, stopping, active_workers,
                   completed_tasks, future, wtask, clientVars>>

\* the counter is not decremented when the task is done
WorkerTaskDoneKeepsActive(w) ==
    /\ wpc[w] = "done"
    /\ wtask' = [wtask EXCEPT ![w] = NoEntry]
    /\ wpc' = [wpc EXCEPT ![w] = "loop"]
    /\ UNCHANGED <<max_workers, queue, task_counter, stopping, counterVars,
                   future, clientVars>>

\* lines 48-50: task_done(), active_workers = max(0, active_workers - 1)
WorkerTaskDone(w) ==
    /\ wpc[w] = "done"
    /\ active_workers' = IF active_workers - 1 > 0 THEN active_workers - 1 ELSE 0
    /\ wtask' = [wtask EXCEPT ![w] = NoEntry]
    /\ wpc' = [wpc EXCEPT ![w] = "loop"]
    /\ UNCHANGED <<max_workers, queue, task_counter, stopping, completed_tasks,
                   error_tasks, future, clientVars>>

\* shutdown(): line 68
Shutdown ==
    /\ ~stopping
    /\ stopping' = TRUE
    /\ UNCHANGED <<max_workers, queue, task_counter, counterVars, future,
                   workerVars, clientVars>>

(***************************************************************************)
(* The pool under concurrent request threads.                              *)
(***************************************************************************)
SchedFrame == UNCHANGED <<orderVars, repoVars, restVars>>

NextSched ==
    \/ (\E c \in Clients, p \in Priorities : SubmitCount(c, p)) /\ SchedFrame
    \/ (\E c \in Clients : SubmitPut(c)) /\ SchedFrame
    \/ (\E c \in Clients : FutureResult(c)) /\ SchedFrame
    \/ (\E c \in Clients : FutureTimeout(c)) /\ SchedFrame
    \/ (\E w \in WorkerIds : WorkerLoop(w)) /\ SchedFrame
    \/ (\E w \in WorkerIds : WorkerGet(w)) /\ SchedFrame
    \/ (\E w \in WorkerIds : WorkerEmpty(w)) /\ SchedFrame
    \/ (\E w \in WorkerIds : WorkerStart(w)) /\ SchedFrame
    \/ (\E w \in WorkerIds : TaskReturn(w)) /\ SchedFrame
    \/ (\E w \in WorkerIds : TaskRaise(w)) /\ SchedFrame
    \/ (\E w \in WorkerIds : WorkerCountCompleted(w)) /\ SchedFrame
    \/ (\E w \in WorkerIds : WorkerCountError(w)) /\ SchedFrame
    \/ (\E w \in WorkerIds : WorkerTaskDone(w)) /\ SchedFrame

Init == InitSched /\ InitRepo /\ InitRest

Spec == Init /\ [][NextSched]_vars

(***************************************************************************)
(* A one-worker pool fed by a single thread, so that every submit()        *)
(* returns before the next begins; the run's history is recorded.          *)
(***************************************************************************)
InitOne == InitSched /\ max_workers = 1 /\ InitRepo /\ InitRest

OneFrame == UNCHANGED <<repoVars, restVars>>

NextOne ==
    \/ /\ \E p \in Priorities : SubmitCount("c1", p)
       /\ UNCHANGED orderVars /\ OneFrame
    \/ /\ SubmitPut("c1")
       /\ prio' = [prio EXCEPT ![ctask["c1"]] = cprio["c1"]]
       /\ UNCHANGED <<execOrder, firstGetSaw>> /\ OneFrame
    \/ /\ FutureResult("c1")
       /\ UNCHANGED orderVars /\ OneFrame
    \/ /\ FutureTimeout("c1")
       /\ UNCHANGED orderVars /\ OneFrame
    \/ /\ WorkerLoop(1)
       /\ UNCHANGED orderVars /\ OneFrame
    \/ /\ WorkerGet(1)
       /\ firstGetSaw' = IF firstGetSaw = {} THEN {f[2] : f \in queue}
                                             ELSE firstGetSaw
       /\ UNCHANGED <<prio, execOrder>> /\ OneFrame
    \/ /\ WorkerEmpty(1)
       /\ UNCHANGED orderVars /\ OneFrame
    \/ /\ WorkerStart(1)
       /\ execOrder' = Append(execOrder, wtask[1][2])
       /\ UNCHANGED <<prio, firstGetSaw>> /\ OneFrame
    \/ /\ TaskReturn(1)
       /\ UNCHANGED orderVars /\ OneFrame
    \/ /\ TaskRaise(1)
       /\ UNCHANGED orderVars /\ OneFrame
    \/ /\ WorkerCountCompleted(1)
       /\ UNCHANGED orderVars /\ OneFrame
    \/ /\ WorkerCountError(1)
       /\ UNCHANGED orderVars /\ OneFrame
    \/ /\ WorkerTaskDone(1)
       /\ UNCHANGED orderVars /\ OneFrame

SpecOne == InitOne /\ [][NextOne]_vars

(***************************************************************************)
(* MlRepository.  Every call opens its own connection (_connect).  A       *)
(* SELECT outside a transaction reads the committed tables; the first      *)
(* INSERT/UPDATE/DELETE of a connection begins a transaction and takes the *)
(* file's write lock, held until commit() or close(); a connection that    *)
(* finds the lock held waits (timeout=30) and then fails with              *)
(* sqlite3.OperationalError "database is locked".                          *)
(***************************************************************************)
Min(S) == CHOOSE x \in S : \A y \in S : x <= y

Conn(p) == <<p, IF rloc[p].nested THEN 2 ELSE 1>>
HoldsLock(p) == writer = Conn(p)
LockFree(p) == writer = NoConn \/ writer = Conn(p)
View(p) == IF HoldsLock(p) THEN wdb ELSE db

\* conn.close() in _connect's finally (lines 50-51): an open transaction of
\* the thread's connections is rolled back
CloseAll(p) ==
    /\ writer' = IF writer[1] = p THEN NoConn ELSE writer
    /\ wdb' = IF writer[1] = p THEN db ELSE wdb

Return(p, res) ==
    /\ rpc' = [rpc EXCEPT ![p] = "idle"]
    /\ rres' = [rres EXCEPT ![p] = res]
    /\ rloc' = [rloc EXCEPT ![p] = NoLoc]
    /\ rop' = [rop EXCEPT ![p] = NoOp]
    /\ rpre' = [rpre EXCEPT ![p] = <<0, 0>>]

Err(status) == [NoRes EXCEPT !.status = status]

\* line 177: dataset_name.strip() or model_key
NormalizedName(name, key) == IF name = "" THEN key ELSE name

\* lines 180-182: SHA-256 of the canonical JSON of the payload list
Hash(payload) == <<"sha256", payload>>

\* lines 260-266: SELECT dataset_id ... WHERE name = ? AND model_key = ? (fetchone)
FindDataset(d, name, key) ==
    LET S == {i \in 1 .. Len(d.datasets) :
                d.datasets[i].name = name /\ d.datasets[i].model_key = key}
    IN IF S = {} THEN 0 ELSE Min(S)

\* lines 289-295: SELECT version_id ... WHERE dataset_id = ? AND version_label = ?
FindVersion(d, did, label) ==
    LET S == {i \in 1 .. Len(d.versions) :
                d.versions[i].dataset_id = did /\ d.versions[i].version_label = label}
    IN IF S = {} THEN 0 ELSE Min(S)

\* Keys of the tables as the data model states them: a DatasetVersion is
\* identified by (dataset_id, version_label), a Model by (model_key, version);
\* an INSERT repeating a key fails with sqlite3.IntegrityError.

VersionKeyTaken(d, did, label) ==
    \E i \in 1 .. Len(d.versions) :
        d.versions[i].dataset_id = did /\ d.versions[i].version_label = label

ModelKeyTaken(d, key, version) ==
    \E i \in 1 .. Len(d.models) :
        d.models[i].model_key = key /\ d.models[i].version = version

(***************************************************************************)
(* persist_dataset (lines 163-250)                                         *)
(***************************************************************************)
CallPersist(p, name, key, label, payload, rewrite) ==
    /\ rpc[p] = "idle"
    /\ ncalls < MaxPersists
    /\ ncalls' = ncalls + 1
    /\ IF payload = <<>>
       THEN Return(p, Err("ValueError"))
       ELSE /\ rop' = [rop EXCEPT ![p] =
                        [op |-> "persist_dataset", name |-> name, key |-> key,
                         label |-> label, payload |-> payload,
                         rewrite |-> rewrite, activate |-> FALSE]]
            /\ LET did == FindDataset(db, NormalizedName(name, key), key)
                   vid == IF did = 0 THEN 0 ELSE FindVersion(db, did, label)
               IN rpre' = [rpre EXCEPT ![p] = <<did, vid>>]
            /\ rpc' = [rpc EXCEPT ![p] = "pd_sel_ds"]
            /\ rres' = [rres EXCEPT ![p] = NoRes]
            /\ rloc' = [rloc EXCEPT ![p] = NoLoc]
    /\ UNCHANGED <<db, wdb, writer>>

\* _get_or_create_dataset, lines 260-268
PdSelectDataset(p) ==
    /\ rpc[p] = "pd_sel_ds"
    /\ LET did == FindDataset(View(p), NormalizedName(rop[p].name, rop[p].key), rop[p].key)
       IN IF did # 0
          THEN /\ rloc' = [rloc EXCEPT ![p].dataset_id = did]
               /\ rpc' = [rpc EXCEPT ![p] = "pd_sel_ver"]
          ELSE /\ rpc' = [rpc EXCEPT ![p] = "pd_ins_ds"]
               /\ UNCHANGED rloc
    /\ UNCHANGED <<db, wdb, writer, rop, rres, rpre, ncalls>>

\* _get_or_create_dataset, lines 269-276
PdInsertDataset(p) ==
    /\ rpc[p] = "pd_ins_ds"
    /\ LockFree(p)
    /\ LET base == View(p)
           row == [name |-> NormalizedName(rop[p].name, rop[p].key),
                   model_key |-> rop[p].key, row_count |-> 0, status |-> "pending",
                   latest_version_label |-> ""]
       IN /\ wdb' = [base EXCEPT !.datasets = Append(@, row)]
          /\ rloc' = [rloc EXCEPT ![p].dataset_id = Len(base.datasets) + 1]
    /\ writer' = Conn(p)
    /\ rpc' = [rpc EXCEPT ![p] = "pd_sel_ver"]
    /\ UNCHANGED <<db, rop, rres, rpre, ncalls>>

\* the existing version is rewritten although rewrite was not requested
PdSelectVersionNeverRaises(p) ==
    /\ rpc[p] = "pd_sel_ver"
    /\ rloc' = [rloc EXCEPT ![p].version_id =
                    FindVersion(View(p), rloc[p].dataset_id, rop[p].label)]
    /\ rpc' = [rpc EXCEPT ![p] = "pd_write"]
    /\ UNCHANGED <<db, wdb, writer, rop, rres, rpre, ncalls>>

\* _create_dataset_version, lines 289-297
PdSelectVersion(p) ==
    /\ rpc[p] = "pd_sel_ver"
    /\ LET vid == FindVersion(View(p), rloc[p].dataset_id, rop[p].label)
       IN IF vid # 0 /\ ~rop[p].rewrite
          THEN /\ CloseAll(p)
               /\ Return(p, Err("DatasetVersionExists"))
          ELSE /\ rloc' = [rloc EXCEPT ![p].version_id = vid]
               /\ rpc' = [rpc EXCEPT ![p] = "pd_write"]
               /\ UNCHANGED <<wdb, writer, rres, rop, rpre>>
    /\ UNCHANGED <<db, ncalls>>

\* lines 299-315 (rewrite in place) or 317-326 (new version), then the items
\* (lines 198-228) and the dataset's counters (lines 229-243)
WriteVersion(base, did, vid0, label, payload, rewrite, keepOld) ==
    LET n == Len(payload)
        vid == IF vid0 # 0 THEN vid0 ELSE Len(base.versions) + 1
        Kept(r) == keepOld \/ r.version_id # vid0
        newItems == [i \in 1 .. n |->
                        [dataset_id |-> did, version_id |-> vid, item |-> payload[i]]]
    IN [base EXCEPT
          !.versions =
              IF vid0 # 0
              THEN [@ EXCEPT ![vid0] = [@ EXCEPT !.row_count = n,
                                                 !.dataset_hash = Hash(payload)]]
              ELSE Append(@, [dataset_id |-> did, version_label |-> label,
                              row_count |-> n, dataset_hash |-> Hash(payload)]),
          !.items = (IF vid0 # 0 THEN SelectSeq(@, Kept) ELSE @) \o newItems,
          !.datasets = [@ EXCEPT ![did] =
              [@ EXCEPT !.row_count = IF rewrite THEN n ELSE @ + n,
                        !.status = "ready",
                        !.latest_version_label = label]]]

\* the rewrite forgets DELETE FROM dataset_items WHERE version_id = ?
PdWriteKeepsOldItems(p) ==
    /\ rpc[p] = "pd_write"
    /\ LockFree(p)
    /\ wdb' = WriteVersion(View(p), rloc[p].dataset_id, rloc[p].version_id,
                           rop[p].label, rop[p].payload, rop[p].rewrite, TRUE)
    /\ rloc' = [rloc EXCEPT ![p].version_id =
                    IF @ # 0 THEN @ ELSE Len(View(p).versions) + 1]
    /\ writer' = Conn(p)
    /\ rpc' = [rpc EXCEPT ![p] = "pd_commit"]
    /\ UNCHANGED <<db, rop, rres, rpre, ncalls>>

PdWrite(p) ==
    /\ rpc[p] = "pd_write"
    /\ LockFree(p)
    /\ IF rloc[p].version_id = 0
          /\ VersionKeyTaken(View(p), rloc[p].dataset_id, rop[p].label)
       THEN /\ CloseAll(p)
            /\ Return(p, Err("IntegrityError"))
       ELSE /\ wdb' = WriteVersion(View(p), rloc[p].dataset_id, rloc[p].version_id,
                                   rop[p].label, rop[p].payload, rop[p].rewrite, FALSE)
            /\ rloc' = [rloc EXCEPT ![p].version_id =
                            IF @ # 0 THEN @ ELSE Len(View(p).versions) + 1]
            /\ writer' = Conn(p)
            /\ rpc' = [rpc EXCEPT ![p] = "pd_commit"]
            /\ UNCHANGED <<rres, rop, rpre>>
    /\ UNCHANGED <<db, ncalls>>

\* lines 244-250: conn.commit(), return DatasetRecord
PdCommit(p) ==
    /\ rpc[p] = "pd_commit"
    /\ db' = wdb
    /\ wdb' = wdb
    /\ writer' = NoConn
    /\ Return(p, [status |-> "ok", dataset_id |-> rloc[p].dataset_id,
                  version_id |-> rloc[p].version_id,
                  row_count |-> Len(rop[p].payload), model_id |-> 0])
    /\ UNCHANGED ncalls

\* a statement that needs the write lock finds it held for the whole timeout
BusyTimeout(p) ==
    /\ rpc[p] \in {"pd_ins_ds", "pd_write", "sm_insert", "am_archive"}
    /\ ~LockFree(p)
    /\ CloseAll(p)
    /\ Return(p, Err("OperationalError"))
    /\ UNCHANGED <<db, ncalls>>

(***************************************************************************)
(* save_model_version (lines 356-398), activate_model (lines 400-416)      *)
(***************************************************************************)
CallSave(p, version, key, activate) ==
    /\ rpc[p] = "idle"
    /\ ncalls < MaxCalls
    /\ ncalls' = ncalls + 1
    /\ rop' = [rop EXCEPT ![p] = [op |-> "save_model_version", name |-> "", key |-> key,
                                  label |-> version, payload |-> <<>>,
                                  rewrite |-> FALSE, activate |-> activate]]
    /\ rpc' = [rpc EXCEPT ![p] = "sm_insert"]
    /\ rres' = [rres EXCEPT ![p] = NoRes]
    /\ rloc' = [rloc EXCEPT ![p] = NoLoc]
    /\ UNCHANGED <<db, wdb, writer, rpre>>

\* service.py 635-638: the endpoint passes version and model_key as received
CallActivate(p, version, key) ==
    /\ rpc[p] = "idle"
    /\ ncalls < MaxCalls
    /\ ncalls' = ncalls + 1
    /\ rop' = [rop EXCEPT ![p] = [op |-> "activate_model", name |-> "", key |-> key,
                                  label |-> version, payload |-> <<>>,
                                  rewrite |-> FALSE, activate |-> FALSE]]
    /\ rpc' = [rpc EXCEPT ![p] = "am_archive"]
    /\ rres' = [rres EXCEPT ![p] = NoRes]
    /\ rloc' = [rloc EXCEPT ![p] = NoLoc]
    /\ UNCHANGED <<db, wdb, writer, rpre>>

\* lines 372-396: INSERT ... 'draft', model_id = lastrowid; with activate the
\* call goes on into activate_model, which opens a second connection
SmInsert(p) ==
    /\ rpc[p] = "sm_insert"
    /\ LockFree(p)
    /\ IF ModelKeyTaken(View(p), rop[p].key, rop[p].label)
       THEN /\ CloseAll(p)
            /\ Return(p, Err("IntegrityError"))
       ELSE /\ wdb' = [View(p) EXCEPT !.models =
                          Append(@, [version |-> rop[p].label,
                                     model_key |-> rop[p].key,
                                     status |-> "draft"])]
            /\ writer' = Conn(p)
            /\ rloc' = [rloc EXCEPT ![p].model_id = Len(View(p).models) + 1,
                                    ![p].nested = rop[p].activate]
            /\ rpc' = [rpc EXCEPT ![p] =
                          IF rop[p].activate THEN "am_archive" ELSE "sm_commit"]
            /\ UNCHANGED <<rres, rop, rpre>>
    /\ UNCHANGED <<db, ncalls>>

\* lines 397-398: conn.commit(), return model_id
SmCommit(p) ==
    /\ rpc[p] = "sm_commit"
    /\ db' = wdb
    /\ wdb' = wdb
    /\ writer' = NoConn
    /\ Return(p, [NoRes EXCEPT !.status = "ok", !.model_id = rloc[p].model_id])
    /\ UNCHANGED ncalls

SetStatus(models, Hit(_), status) ==
    [i \in 1 .. Len(models) |->
        IF Hit(models[i]) THEN [models[i] EXCEPT !.status = status] ELSE models[i]]

\* the archiving UPDATE is committed on its own
AmArchiveAutocommit(p) ==
    /\ rpc[p] = "am_archive"
    /\ LockFree(p)
    /\ LET OfKey(m) == m.model_key = rop[p].key
       IN /\ wdb' = [View(p) EXCEPT !.models = SetStatus(@, OfKey, "archived")]
          /\ db' = [View(p) EXCEPT !.models = SetStatus(@, OfKey, "archived")]
    /\ writer' = Conn(p)
    /\ rpc' = [rpc EXCEPT ![p] = "am_activate"]
    /\ UNCHANGED <<rop, rloc, rres, rpre, ncalls>>

\* lines 402-407: UPDATE models SET status = 'archived' WHERE model_key = ?
AmArchive(p) ==
    /\ rpc[p] = "am_archive"
    /\ LockFree(p)
    /\ LET OfKey(m) == m.model_key = rop[p].key
       IN wdb' = [View(p) EXCEPT !.models = SetStatus(@, OfKey, "archived")]
    /\ writer' = Conn(p)
    /\ rpc' = [rpc EXCEPT ![p] = "am_activate"]
    /\ UNCHANGED <<db, rop, rloc, rres, rpre, ncalls>>

\* lines 408-415: UPDATE models SET status = 'active' WHERE version = ?
AmActivate(p) ==
    /\ rpc[p] = "am_activate"
    /\ LET OfVersion(m) == m.version = rop[p].label
       IN wdb' = [wdb EXCEPT !.models = SetStatus(@, OfVersion, "active")]
    /\ rpc' = [rpc EXCEPT ![p] = "am_commit"]
    /\ UNCHANGED <<db, writer, rop, rloc, rres, rpre, ncalls>>

\* line 416: conn.commit(); a nested call returns into save_model_version
AmCommit(p) ==
    /\ rpc[p] = "am_commit"
    /\ db' = wdb
    /\ wdb' = wdb
    /\ writer' = NoConn
    /\ IF rloc[p].nested
       THEN /\ rpc' = [rpc EXCEPT ![p] = "sm_commit"]
            /\ rloc' = [rloc EXCEPT ![p].nested = FALSE]
            /\ UNCHANGED <<rres, rop, rpre>>
       ELSE Return(p, [NoRes EXCEPT !.status = "ok"])
    /\ UNCHANGED ncalls

RepoFrame == UNCHANGED <<schedVars, orderVars, restVars>>

InitStore == InitSched /\ max_workers = 1 /\ InitRepo /\ InitRest

(***************************************************************************)
(* Threads persisting datasets.                                            *)
(***************************************************************************)
NextData ==
    \/ (\E p \in Procs, name \in DatasetNames, key \in PersistKeys, label \in Labels,
           payload \in Payloads, rewrite \in BOOLEAN :
           CallPersist(p, name, key, label, payload, rewrite)) /\ RepoFrame
    \/ (\E p \in Procs : PdSelectDataset(p)) /\ RepoFrame
    \/ (\E p \in Procs : PdInsertDataset(p)) /\ RepoFrame
    \/ (\E p \in Procs : PdSelectVersion(p)) /\ RepoFrame
    \/ (\E p \in Procs : PdWrite(p)) /\ RepoFrame
    \/ (\E p \in Procs : PdCommit(p)) /\ RepoFrame
    \/ (\E p \in Procs : BusyTimeout(p)) /\ RepoFrame

SpecData == InitStore /\ [][NextData]_vars

(***************************************************************************)
(* Threads persisting datasets, none of them asking for a rewrite.         *)
(***************************************************************************)
NextRace ==
    \/ (\E p \in Procs, name \in DatasetNames, key \in PersistKeys, label \in Labels,
           payload \in Payloads :
           CallPersist(p, name, key, label, payload, FALSE)) /\ RepoFrame
    \/ (\E p \in Procs : PdSelectDataset(p)) /\ RepoFrame
    \/ (\E p \in Procs : PdInsertDataset(p)) /\ RepoFrame
    \/ (\E p \in Procs : PdSelectVersion(p)) /\ RepoFrame
    \/ (\E p \in Procs : PdWrite(p)) /\ RepoFrame
    \/ (\E p \in Procs : PdCommit(p)) /\ RepoFrame
    \/ (\E p \in Procs : BusyTimeout(p)) /\ RepoFrame

SpecRace == InitStore /\ [][NextRace]_vars

(***************************************************************************)
(* Threads registering and activating models.                              *)
(***************************************************************************)
NextModels ==
    \/ (\E p \in Procs, version \in Labels, key \in ModelKeys, activate \in BOOLEAN :
           CallSave(p, version, key, activate)) /\ RepoFrame
    \/ (\E p \in Procs, version \in Labels, key \in ModelKeys :
           CallActivate(p, version, key)) /\ RepoFrame
    \/ (\E p \in Procs : SmInsert(p)) /\ RepoFrame
    \/ (\E p \in Procs : SmCommit(p)) /\ RepoFrame
    \/ (\E p \in Procs : AmArchive(p)) /\ RepoFrame
    \/ (\E p \in Procs : AmActivate(p)) /\ RepoFrame
    \/ (\E p \in Procs : AmCommit(p)) /\ RepoFrame
    \/ (\E p \in Procs : BusyTimeout(p)) /\ RepoFrame

SpecModels == InitStore /\ [][NextModels]_vars

(***************************************************************************)
(* Properties of the scheduler.                                            *)
(***************************************************************************)
EntryPriority(e) == -e[1]
EntryCount(e) == e[2]

\* C1: whenever a worker dequeues, the tuple it takes is one that was waiting,
\* it has the highest priority value among the waiting tuples, and among those
\* of equal priority the smallest submission counter.
C1_DequeueTakesHighestPriorityFifo ==
    [][\A w \in WorkerIds :
        (wpc[w] = "get" /\ wpc'[w] = "start") =>
            /\ wtask'[w] \in queue
            /\ queue' = queue \ {wtask'[w]}
            /\ \A f \in queue :
                 \/ f = wtask'[w]
                 \/ EntryPriority(f) < EntryPriority(wtask'[w])
                 \/ /\ EntryPriority(f) = EntryPriority(wtask'[w])
                    /\ EntryCount(wtask'[w]) < EntryCount(f)]_vars

\* C1 witness: a worker holds a priority-5 tuple it dequeued while an earlier
\* submitted priority-1 tuple and a later priority-5 tuple are still waiting.
C1_Witness ==
    \E w \in WorkerIds :
        /\ wpc[w] = "start"
        /\ EntryPriority(wtask[w]) = 5
        /\ \E f \in queue : EntryPriority(f) = 1 /\ EntryCount(f) < EntryCount(wtask[w])
        /\ \E f \in queue : EntryPriority(f) = 5 /\ EntryCount(f) > EntryCount(wtask[w])

Executed == {execOrder[i] : i \in 1 .. Len(execOrder)}
Pos(t) == CHOOSE i \in 1 .. Len(execOrder) : execOrder[i] = t
Before(a, b) == prio[a] > prio[b] \/ (prio[a] = prio[b] /\ a < b)

\* C2 as claimed: on the one-worker pool with sequential submits of priorities
\* [1, 5, 1] (tasks 0, 1, 2), the three execute in the order 1, 0, 2 whatever
\* the worker was doing when the first task arrived.
C2_Original ==
    (/\ prio[0] = 1 /\ prio[1] = 5 /\ prio[2] = 1
     /\ {0, 1, 2} \subseteq Executed)
        => (Pos(1) < Pos(0) /\ Pos(0) < Pos(2))

\* C2 as amended: on the one-worker pool with sequential submits, the tasks
\* that were all waiting in the queue when the worker made its first dequeue
\* execute, relative to each other, in non-increasing priority order with
\* FIFO tie-break.
C2_OrderAmongTasksQueuedTogether ==
    \A a \in firstGetSaw \cap Executed, b \in firstGetSaw \cap Executed :
        Before(a, b) => Pos(a) < Pos(b)

\* C2 witness: priorities [1, 5, 1] were all queued at the first dequeue and
\* ran in the order task2, task1, task3.
C2_Witness ==
    /\ prio[0] = 1 /\ prio[1] = 5 /\ prio[2] = 1
    /\ firstGetSaw = {0, 1, 2}
    /\ Len(execOrder) >= 3
    /\ SubSeq(execOrder, 1, 3) = <<1, 0, 2>>

CountingAt(pcs) == Cardinality({w \in WorkerIds : wpc[w] \in pcs})
FuturesIn(states) == Cardinality({t \in Tasks : future[t] \in states})

Held(t) == \E w \in WorkerIds : wtask[w][2] = t
Waiting(t) == \E e \in queue : e[2] = t

ActiveOf(models, k) ==
    {i \in 1 .. Len(models) : models[i].model_key = k /\ models[i].status = "active"}

\* C3: after any sequence of save_model_version and activate_model calls, every
\* model_key has at most one Model with status active.
C3_AtMostOneActivePerKey ==
    \A k \in ModelKeys : Cardinality(ActiveOf(db.models, k)) <= 1

\* C4: when activate_model(version=V, model_key=K) returns, exactly one Model
\* of key K is active and every other Model of K is archived.
C4_ActivateLeavesExactlyOneActive ==
    [][\A p \in Procs :
        (rpc[p] = "am_commit" /\ ~rloc[p].nested /\ rpc'[p] = "idle") =>
            /\ Cardinality(ActiveOf(db'.models, rop[p].key)) = 1
            /\ \A i \in 1 .. Len(db'.models) :
                 db'.models[i].model_key = rop[p].key =>
                     db'.models[i].status \in {"active", "archived"}]_vars

\* C5: when save_model_version(..., activate=True) ends, it has returned the
\* id of the newly stored Model, that Model is the single active one of its
\* model_key and every other Model of the key is archived.
C5_SaveWithActivateTakesEffect ==
    [][\A p \in Procs :
        (/\ rop[p].op = "save_model_version" /\ rop[p].activate
         /\ rpc[p] # "idle" /\ rpc'[p] = "idle") =>
            /\ rres'[p].status = "ok"
            /\ rres'[p].model_id \in 1 .. Len(db'.models)
            /\ db'.models[rres'[p].model_id].version = rop[p].label
            /\ db'.models[rres'[p].model_id].model_key = rop[p].key
            /\ ActiveOf(db'.models, rop[p].key) = {rres'[p].model_id}
            /\ \A i \in 1 .. Len(db'.models) :
                 (db'.models[i].model_key = rop[p].key /\ i # rres'[p].model_id) =>
                     db'.models[i].status = "archived"]_vars

ItemsOf(d, vid) ==
    LET OfVersion(r) == r.version_id = vid
        rows == SelectSeq(d.items, OfVersion)
    IN [i \in 1 .. Len(rows) |-> rows[i].item]

\* C6: a persist_dataset call without rewrite whose version_label existed for
\* the dataset when the call began can only end with the version-conflict
\* error, and none of its steps changes the stored datasets, dataset versions
\* or dataset items (nor opens a transaction).
C6_ConflictRaisesAndChangesNothing ==
    [][\A p \in Procs :
        (/\ rop[p].op = "persist_dataset" /\ ~rop[p].rewrite
         /\ rpre[p][2] # 0 /\ rpc'[p] # rpc[p]) =>
            /\ db' = db
            /\ wdb' = wdb
            /\ writer' = writer
            /\ rpc'[p] = "idle" => rres'[p].status = "DatasetVersionExists"]_vars

\* C6 witness: a call has ended with the version-conflict error while the
\* version it named is stored with its ten rows.
C6_Witness ==
    \E p \in Procs :
        /\ rres[p].status = "DatasetVersionExists"
        /\ \E v \in 1 .. Len(db.versions) :
              db.versions[v].row_count = 10 /\ ItemsOf(db, v) = Ten

\* C7: a persist_dataset call with rewrite=true on a (dataset, version_label)
\* that existed when the call began returns the dataset_id and version_id the
\* version had, adds no version row, sets the version's row_count and hash to
\* those of the new items, and leaves exactly the new items under the version.
C7_RewriteReplacesInPlace ==
    [][\A p \in Procs :
        (/\ rpc[p] = "pd_commit" /\ rpc'[p] = "idle"
         /\ rop[p].rewrite /\ rpre[p][2] # 0) =>
            LET vid == rpre[p][2] IN
            /\ rres'[p].status = "ok"
            /\ rres'[p].dataset_id = rpre[p][1]
            /\ rres'[p].version_id = vid
            /\ rres'[p].row_count = Len(rop[p].payload)
            /\ Len(db'.versions) = Len(db.versions)
            /\ db'.versions[vid].dataset_id = rpre[p][1]
            /\ db'.versions[vid].version_label = rop[p].label
            /\ db'.versions[vid].row_count = Len(rop[p].payload)
            /\ db'.versions[vid].dataset_hash = Hash(rop[p].payload)
            /\ ItemsOf(db', vid) = rop[p].payload]_vars

\* C7 witness: a version stored with ten rows is about to be committed as
\* rewritten with seven rows under the same version_id.
C7_Witness ==
    \E p \in Procs :
        /\ rpc[p] = "pd_commit"
        /\ rop[p].rewrite
        /\ rop[p].payload = Seven
        /\ rpre[p][2] # 0
        /\ rloc[p].version_id = rpre[p][2]
        /\ db.versions[rpre[p][2]].row_count = 10
        /\ wdb.versions[rpre[p][2]].row_count = 7

\* C8: with persist_dataset calls that never ask for a rewrite, every
\* successful call stores one version row, so "at most one call succeeds for
\* the same dataset and version_label, and no two version rows share
\* (dataset_id, version_label)" says: no two version rows have the same
\* version_label under the same dataset (name, model_key).
C8_OneVersionPerDatasetAndLabel ==
    \A i \in 1 .. Len(db.versions), j \in 1 .. Len(db.versions) :
        (/\ i # j
         /\ db.versions[i].version_label = db.versions[j].version_label
         /\ db.datasets[db.versions[i].dataset_id].name
              = db.datasets[db.versions[j].dataset_id].name
         /\ db.datasets[db.versions[i].dataset_id].model_key
              = db.datasets[db.versions[j].dataset_id].model_key) => FALSE

(***************************************************************************)
(* Properties of the worker pool.                                          *)
(***************************************************************************)
Executing == {w \in WorkerIds : wpc[w] = "exec"}
RunningTasks == {t \in Tasks : future[t] = "RUNNING"}

\* C11: at every moment at most max_workers tasks are executing, every
\* executing task is held by exactly one worker and a worker holds at most
\* one task, a worker dequeues only when it holds no task (the one it held
\* before has finished), and active_workers stays within 0..max_workers.
C11_PoolIsBounded ==
    /\ [](/\ Cardinality(RunningTasks) <= max_workers
          /\ Cardinality(Executing) <= max_workers
          /\ \A t \in RunningTasks :
                Cardinality({w \in Executing : wtask[w][2] = t}) = 1
          /\ \A w \in WorkerIds :
                wpc[w] \in {"loop", "get", "absent", "exited"} => wtask[w] = NoEntry
          /\ active_workers \in 0 .. max_workers)
    /\ [][\A w \in WorkerIds :
            wtask'[w] # wtask[w] /\ wtask'[w] # NoEntry =>
                /\ wtask[w] = NoEntry
                /\ \A t \in RunningTasks : \E v \in Executing \ {w} : wtask[v][2] = t]_vars

\* C11 witness: a pool of two workers with both executing a task, a third
\* task waiting in the queue.
C11_Witness ==
    /\ max_workers = 2
    /\ Cardinality(Executing) = 2
    /\ active_workers = 2
    /\ queue # {}

(***************************************************************************)
(* MonitoringStore: monitoring_requests.                                   *)
(***************************************************************************)
MaxRequests == 4
MaxRows == 2
MaxClock == 2
TickHours == 2

Statuses == {"queued", "running", "completed", "error", "stopped"}
EmptyDetail == "{}"
TrainDetail == "{kind: train}"

\* start_request, lines 139-150: the inserted row; progress, started_at and
\* the NULL columns come from the column defaults (lines 54-60)
StartRow(detail, now) ==
    [status |-> "queued", progress |-> 0,
     detail |-> IF detail = None THEN EmptyDetail ELSE detail,
     error |-> None, started_at |-> now, completed_at |-> NoTime]

\* update_request, lines 161-172: the values written to the row
UpdateRow(row, status, progress, detail, error, now) ==
    LET terminal == status \in {"completed", "error"}
        r1 == IF status # None /\ status # "" THEN [row EXCEPT !.status = status] ELSE row
        r2 == IF progress # NoProgress THEN [r1 EXCEPT !.progress = progress] ELSE r1
        r3 == IF detail # None THEN [r2 EXCEPT !.detail = detail] ELSE r2
        r4 == IF error # None THEN [r3 EXCEPT !.error = error] ELSE r3
    IN IF terminal
       THEN [r4 EXCEPT !.completed_at = now,
                       !.progress = IF progress = NoProgress \/ progress = 0
                                    THEN 100 ELSE progress]
       ELSE r4

\* update_request, lines 173-176: UPDATE ... WHERE id = request_id
UpdateRequest(rows, id, status, progress, detail, error, now) ==
    IF id \in 1 .. Len(rows)
    THEN [rows EXCEPT ![id] = UpdateRow(rows[id], status, progress, detail, error, now)]
    ELSE rows

\* every stored row is counted, whenever it was started
RequestMetricsAllRows(rows, now, hours) ==
    LET W == 1 .. Len(rows)
        Count(st) == Cardinality({i \in W : rows[i].status = st})
    IN [kind |-> "metrics", window_hours |-> hours, total |-> Cardinality(W),
        completed |-> Count("completed"), errored |-> Count("error"),
        running |-> Count("running"), queued |-> Count("queued"),
        retrain_candidates |-> Cardinality({i \in W : rows[i].detail = TrainDetail})]

\* request_metrics, lines 302-323
RequestMetrics(rows, now, hours) ==
    LET since == now - hours
        W == {i \in 1 .. Len(rows) : rows[i].started_at >= since}
        Count(st) == Cardinality({i \in W : rows[i].status = st})
    IN [kind |-> "metrics", window_hours |-> hours, total |-> Cardinality(W),
        completed |-> Count("completed"), errored |-> Count("error"),
        running |-> Count("running"), queued |-> Count("queued"),
        retrain_candidates |-> Cardinality({i \in W : rows[i].detail = TrainDetail})]

(***************************************************************************)
(* The store called directly, one call at a time, with any arguments.      *)
(***************************************************************************)
StoreStart(detail, maxRows) ==
    /\ Len(requests) < maxRows
    /\ requests' = Append(requests, StartRow(detail, clock))
    /\ mret' = [kind |-> "id", id |-> Len(requests) + 1]
    /\ UNCHANGED <<admin_logs, audit, clock, tpc, trk, tout>>

StoreUpdate(id, status, progress, detail, error) ==
    /\ id \in 1 .. Len(requests)
    /\ requests' = UpdateRequest(requests, id, status, progress, detail, error, clock)
    /\ mret' = NoRet
    /\ UNCHANGED <<admin_logs, audit, clock, tpc, trk, tout>>

StoreMetrics(hours) ==
    /\ mret' = RequestMetrics(requests, clock, hours)
    /\ UNCHANGED <<requests, admin_logs, audit, clock, tpc, trk, tout>>

\* time passes between two calls
Tick ==
    /\ clock + TickHours <= MaxClock
    /\ clock' = clock + TickHours
    /\ UNCHANGED <<requests, admin_logs, audit, mret, tpc, trk, tout>>

MonFrame == UNCHANGED <<schedVars, orderVars, repoVars, mixVars, pipeVars, fsVars, lateVars>>

InitApi == InitSched /\ max_workers = 1 /\ InitRepo /\ InitRest

NextApi ==
    \/ (\E d \in {None, TrainDetail} : StoreStart(d, MaxRows)) /\ MonFrame
    \/ (\E id \in 1 .. MaxRows, st \in Statuses \cup {None},
           pr \in {NoProgress, 0, 50, 100} :
           StoreUpdate(id, st, pr, None, None)) /\ MonFrame
    \/ (\E h \in {1, 24} : StoreMetrics(h)) /\ MonFrame
    \/ Tick /\ MonFrame

SpecApi == InitApi /\ [][NextApi]_vars

(***************************************************************************)
(* Requests going through their life (started, set running, closed by      *)
(* their tracker or stopped by the administrator) while metrics are read.  *)
(***************************************************************************)
NextMetrics ==
    \/ StoreStart(None, MaxRequests) /\ MonFrame
    \/ (\E id \in 1 .. Len(requests) :
           /\ requests[id].status = "queued"
           /\ StoreUpdate(id, "running", NoProgress, None, None)) /\ MonFrame
    \/ (\E id \in 1 .. Len(requests), st \in {"completed", "error"} :
           /\ requests[id].status = "running"
           /\ StoreUpdate(id, st, 100, None, None)) /\ MonFrame
    \/ (\E id \in 1 .. Len(requests) :
           /\ requests[id].status \in {"queued", "running"}
           /\ StoreUpdate(id, "stopped", 100, None, None)) /\ MonFrame
    \/ (\E h \in {1, 24} : StoreMetrics(h)) /\ MonFrame
    \/ Tick /\ MonFrame

SpecMetrics == InitApi /\ [][NextMetrics]_vars

(***************************************************************************)
(* RequestTracker (service.py 112-197): the tracked block of a request     *)
(* thread, and the administrator's stop action (monitoring/app.py).        *)
(***************************************************************************)
MaxTracked == 2
MaxStops == 1
ExcTexts == {"boom"}
ErrorCodes == {"no_valid_records"}
Details == {"d1"}

InBody(t) == tpc[t] \in {"body", "work"}

\* finalize_request_log, repository.py 444-479
FinalizeLog(rows, id, status, error_message) ==
    IF id \in 1 .. Len(rows)
    THEN [rows EXCEPT ![id] =
            [status |-> status,
             error_message |-> IF error_message = None THEN @.error_message
                                                       ELSE error_message]]
    ELSE rows

\* the with block is left: __exit__ returns False
EndBlock(t, exit) ==
    /\ tpc' = [tpc EXCEPT ![t] = "idle"]
    /\ tout' = [tout EXCEPT ![t] = [exit |-> exit, exc |-> trk[t].exc]]
    /\ trk' = [trk EXCEPT ![t] = NoTracker]

\* __enter__ line 136: start_request
TEnterStart(t, detail, withAudit) ==
    /\ tpc[t] = "idle"
    /\ Len(requests) < MaxTracked
    /\ requests' = Append(requests, StartRow(detail, clock))
    /\ trk' = [trk EXCEPT ![t] = [NoTracker EXCEPT !.request_id = Len(requests) + 1,
                                                   !.detail = detail,
                                                   !.audit_payload = withAudit]]
    /\ tpc' = [tpc EXCEPT ![t] = "enter_run"]
    /\ UNCHANGED <<admin_logs, audit, clock, mret, tout>>

\* __enter__ line 137: update_request(status="running")
TEnterRun(t) ==
    /\ tpc[t] = "enter_run"
    /\ requests' = UpdateRequest(requests, trk[t].request_id, "running", NoProgress,
                                 None, None, clock)
    /\ tpc' = [tpc EXCEPT ![t] = "enter_log"]
    /\ UNCHANGED <<admin_logs, audit, clock, mret, trk, tout>>

\* __enter__ lines 138-147: log_request_start when an audit payload is given
TEnterLog(t) ==
    /\ tpc[t] = "enter_log"
    /\ IF trk[t].audit_payload
       THEN /\ audit' = Append(audit, [status |-> "pending", error_message |-> None])
            /\ trk' = [trk EXCEPT ![t].audit_log_id = Len(audit) + 1]
       ELSE UNCHANGED <<audit, trk>>
    /\ tpc' = [tpc EXCEPT ![t] = "body"]
    /\ UNCHANGED <<requests, admin_logs, clock, mret, tout>>

\* tracker.update(detail=...), e.g. service.py 285
TUpdateDetail(t, detail) ==
    /\ tpc[t] = "body"
    /\ requests' = UpdateRequest(requests, trk[t].request_id, None, NoProgress,
                                 detail, None, clock)
    /\ tpc' = [tpc EXCEPT ![t] = "work"]
    /\ UNCHANGED <<admin_logs, audit, clock, mret, trk, tout>>

\* tracker.update(status="error", error=code) before raising, e.g. 281-284
TUpdateError(t, code) ==
    /\ InBody(t)
    /\ requests' = UpdateRequest(requests, trk[t].request_id, "error", NoProgress,
                                 None, code, clock)
    /\ tpc' = [tpc EXCEPT ![t] = "raising"]
    /\ UNCHANGED <<admin_logs, audit, clock, mret, trk, tout>>

\* the body raises: __exit__ is entered with exc_type set (line 185)
TRaise(t, text) ==
    /\ InBody(t) \/ tpc[t] \in {"raising", "after"}
    /\ trk' = [trk EXCEPT ![t].exc = text]
    /\ tpc' = [tpc EXCEPT ![t] = "exit_err"]
    /\ UNCHANGED <<requests, admin_logs, audit, clock, mret, tout>>

\* complete(), lines 167-172, called by the body
TComplete(t, detail) ==
    /\ InBody(t)
    /\ requests' = UpdateRequest(requests, trk[t].request_id, "completed", 100,
                                 IF detail = None THEN trk[t].detail ELSE detail,
                                 None, clock)
    /\ tpc' = [tpc EXCEPT ![t] = "c_fin"]
    /\ UNCHANGED <<admin_logs, audit, clock, mret, trk, tout>>

\* complete(), lines 173-180: finalize_request_log(success), _completed = True
TCompleteLog(t) ==
    /\ tpc[t] = "c_fin"
    /\ audit' = IF trk[t].audit_log_id # 0
                THEN FinalizeLog(audit, trk[t].audit_log_id, "success", None)
                ELSE audit
    /\ trk' = [trk EXCEPT ![t].completed = TRUE]
    /\ tpc' = [tpc EXCEPT ![t] = "after"]
    /\ UNCHANGED <<requests, admin_logs, clock, mret, tout>>

\* the body ends normally: __exit__ lines 183-184, 195-197; complete() is
\* called (its update_request, lines 167-172) unless the body already did
TBodyEnd(t) ==
    /\ InBody(t) \/ tpc[t] = "after"
    /\ IF trk[t].completed
       THEN /\ EndBlock(t, "normal")
            /\ UNCHANGED requests
       ELSE /\ requests' = UpdateRequest(requests, trk[t].request_id, "completed", 100,
                                         trk[t].detail, None, clock)
            /\ tpc' = [tpc EXCEPT ![t] = "x_fin"]
            /\ UNCHANGED <<trk, tout>>
    /\ UNCHANGED <<admin_logs, audit, clock, mret>>

\* complete() called by __exit__, lines 173-180, then return False
TExitLog(t) ==
    /\ tpc[t] = "x_fin"
    /\ audit' = IF trk[t].audit_log_id # 0
                THEN FinalizeLog(audit, trk[t].audit_log_id, "success", None)
                ELSE audit
    /\ EndBlock(t, "normal")
    /\ UNCHANGED <<requests, admin_logs, clock, mret>>

\* __exit__ lines 185-188: update_request(status="error", error=str(exc))
TExitError(t) ==
    /\ tpc[t] = "exit_err"
    /\ requests' = UpdateRequest(requests, trk[t].request_id, "error", 100,
                                 None, trk[t].exc, clock)
    /\ tpc' = [tpc EXCEPT ![t] = "exit_err_log"]
    /\ UNCHANGED <<admin_logs, audit, clock, mret, trk, tout>>

\* __exit__ lines 189-194, 197: finalize_request_log(error), return False
TExitErrorLog(t) ==
    /\ tpc[t] = "exit_err_log"
    /\ audit' = IF trk[t].audit_log_id # 0
                THEN FinalizeLog(audit, trk[t].audit_log_id, "error", trk[t].exc)
                ELSE audit
    /\ EndBlock(t, "raised")
    /\ UNCHANGED <<requests, admin_logs, clock, mret>>

\* stop_request, monitoring/app.py 266-274
StopRequest(id) ==
    /\ Len(admin_logs) < MaxStops
    /\ requests' = UpdateRequest(requests, id, "stopped", 100, None, None, clock)
    /\ admin_logs' = Append(admin_logs, [action |-> "stop_request", request_id |-> id])
    /\ UNCHANGED <<audit, clock, mret, tpc, trk, tout>>

NextTrack ==
    \/ (\E t \in Trackers, a \in BOOLEAN : TEnterStart(t, None, a)) /\ MonFrame
    \/ (\E t \in Trackers : TEnterRun(t)) /\ MonFrame
    \/ (\E t \in Trackers : TEnterLog(t)) /\ MonFrame
    \/ (\E t \in Trackers, d \in Details : TUpdateDetail(t, d)) /\ MonFrame
    \/ (\E t \in Trackers, c \in ErrorCodes : TUpdateError(t, c)) /\ MonFrame
    \/ (\E t \in Trackers, x \in ExcTexts : TRaise(t, x)) /\ MonFrame
    \/ (\E t \in Trackers, d \in {None} \cup Details : TComplete(t, d)) /\ MonFrame
    \/ (\E t \in Trackers : TCompleteLog(t)) /\ MonFrame
    \/ (\E t \in Trackers : TBodyEnd(t)) /\ MonFrame
    \/ (\E t \in Trackers : TExitLog(t)) /\ MonFrame
    \/ (\E t \in Trackers : TExitError(t)) /\ MonFrame
    \/ (\E t \in Trackers : TExitErrorLog(t)) /\ MonFrame
    \/ (\E id \in 1 .. Len(requests) : StopRequest(id)) /\ MonFrame

SpecTrack == InitApi /\ [][NextTrack]_vars

(***************************************************************************)
(* Properties of the monitoring store.                                     *)
(***************************************************************************)
\* C15: every update_request call with status completed or error sets
\* completed_at and leaves the row with progress = 100, whatever progress
\* value the call passes.
C15_TerminalUpdateForcesProgress ==
    [][\A id \in 1 .. Len(requests), st \in {"completed", "error"},
          pr \in {NoProgress, 0, 50, 100} :
            StoreUpdate(id, st, pr, None, None) =>
                /\ requests'[id].completed_at = clock
                /\ requests'[id].progress = 100]_vars

InWindow(h) == {i \in 1 .. Len(requests) : requests[i].started_at >= clock - h}
WithStatus(S, st) == Cardinality({i \in S : requests[i].status = st})

\* C16: request_metrics(hours) reports total as the number of requests
\* started within the window and completed, errored, running, queued as the
\* number of those requests in each status; after 2 completed, 1 errored and
\* 1 queued request, request_metrics(24) reports total 4, completed 2,
\* errored 1, queued 1, running 0.
C16_MetricsCountWindowByStatus ==
    [][\A h \in {1, 24} :
        StoreMetrics(h) =>
            /\ mret'.kind = "metrics"
            /\ mret'.window_hours = h
            /\ mret'.total = Cardinality(InWindow(h))
            /\ mret'.completed = WithStatus(InWindow(h), "completed")
            /\ mret'.errored = WithStatus(InWindow(h), "error")
            /\ mret'.running = WithStatus(InWindow(h), "running")
            /\ mret'.queued = WithStatus(InWindow(h), "queued")
            /\ (/\ h = 24
                /\ Len(requests) = 4
                /\ WithStatus(1 .. 4, "completed") = 2
                /\ WithStatus(1 .. 4, "error") = 1
                /\ WithStatus(1 .. 4, "queued") = 1) =>
                    /\ mret'.total = 4 /\ mret'.completed = 2 /\ mret'.errored = 1
                    /\ mret'.queued = 1 /\ mret'.running = 0]_vars

\* C16 witness: with 2 completed, 1 errored and 1 queued request stored,
\* one of them started before the last hour, request_metrics(1) has just
\* reported the three requests of the window.
C16_Witness ==
    /\ Len(requests) = 4
    /\ WithStatus(1 .. 4, "completed") = 2
    /\ WithStatus(1 .. 4, "error") = 1
    /\ WithStatus(1 .. 4, "queued") = 1
    /\ Cardinality(InWindow(1)) = 3
    /\ mret.kind = "metrics"
    /\ mret.window_hours = 1
    /\ mret.total = 3

(***************************************************************************)
(* Properties of the tracked block.                                        *)
(***************************************************************************)
\* C12: when the tracked block of a tracker that opened a Request row ends,
\* its rows are closed consistently: on normal exit the Request is completed
\* and the audit row (if one was opened) is success; on an exception the
\* Request is error and the audit row is error, both with the exception
\* text, and the exception propagates to the caller.
C12_BlockEndClosesBothRows ==
    [][\A t \in Trackers :
        (tpc[t] # "idle" /\ tpc'[t] = "idle") =>
            LET rid == trk[t].request_id
                aid == trk[t].audit_log_id
            IN IF trk[t].exc = None
               THEN /\ tout'[t].exit = "normal"
                    /\ requests'[rid].status = "completed"
                    /\ aid # 0 => audit'[aid].status = "success"
               ELSE /\ tout'[t] = [exit |-> "raised", exc |-> trk[t].exc]
                    /\ requests'[rid].status = "error"
                    /\ requests'[rid].error = trk[t].exc
                    /\ aid # 0 => /\ audit'[aid].status = "error"
                                  /\ audit'[aid].error_message = trk[t].exc]_vars

StatusRank(st) == IF st = "queued" THEN 0 ELSE IF st = "running" THEN 1 ELSE 2

\* C13: a Request's status only moves forward along queued -> running ->
\* {completed, error, stopped}: it never moves backwards and never leaves a
\* terminal status once it has reached one.
C13_StatusOnlyMovesForward ==
    [][\A i \in 1 .. Len(requests) :
        requests'[i].status # requests[i].status =>
            /\ StatusRank(requests[i].status) < 2
            /\ StatusRank(requests'[i].status) > StatusRank(requests[i].status)]_vars

RowFields(r) == <<r.status, r.progress, r.detail, r.error>>

\* C14: a Request row is changed only by the tracker that created it: every
\* step that changes the status, progress, detail or error of a stored row
\* is a step of the tracker holding that row's request_id.
C14_RowChangedOnlyByOwner ==
    [][\A i \in 1 .. Len(requests) :
        RowFields(requests'[i]) # RowFields(requests[i]) =>
            \E t \in Trackers : trk[t].request_id = i /\ tpc'[t] # tpc[t]]_vars

(***************************************************************************)
(* ReferenceDatasetManager.mix_for_training (dataset_manager.py 59-107).   *)
(* min_reference_ratio is the fraction MinRatioNum / MinRatioDen; a ratio  *)
(* rounded to four decimals is held as a number of ten-thousandths.        *)
(***************************************************************************)
MaxRef == 3
MaxClient == 30
MinRatioNum == 1
MinRatioDen == 10
RatioScale == 10000

Size(f) == f.ref + f.x + f.y
Concat(f, g) == Frame(f.ref + g.ref, f.x + g.x, f.y + g.y)
Times(f, k) == Frame(f.ref * k, f.x * k, f.y * k)
Max(a, b) == IF a >= b THEN a ELSE b

\* np.ceil(a / b) for a >= 0, b > 0
CeilDiv(a, b) == (a + b - 1) \div b

\* round(a / b, 4), ties to even
Round4(a, b) ==
    LET q == (a * RatioScale) \div b
        rem == (a * RatioScale) % b
    IN IF 2 * rem > b THEN q + 1
       ELSE IF 2 * rem < b THEN q
       ELSE IF q % 2 = 0 THEN q ELSE q + 1

ClientFrames == {Frame(0, x, y) : x \in 0 .. MaxClient, y \in 0 .. 1}
ReferenceFrames == {Frame(r, 0, 0) : r \in 0 .. MaxRef}

\* one client row is lost on the way
MixNoReferenceDropsRow(client) ==
    [kind |-> "mix",
     mixed |-> IF client.x > 0 THEN [client EXCEPT !.x = @ - 1] ELSE client,
     report |-> [total_rows |-> Size(client), reference_rows |-> 0,
                 client_rows |-> Size(client), reference_ratio |-> 0,
                 oversampled |-> FALSE]]

\* lines 65-74: no reference file
MixNoReference(client) ==
    [kind |-> "mix",
     mixed |-> client,
     report |-> [total_rows |-> Size(client), reference_rows |-> 0,
                 client_rows |-> Size(client), reference_ratio |-> 0,
                 oversampled |-> FALSE]]

\* lines 81-107: a non-empty reference
MixWithReference(reference, client) ==
    LET total_rows == Size(reference) + Size(client)
        below == Size(reference) * MinRatioDen < MinRatioNum * Max(total_rows, 1)
        needed_reference == CeilDiv(MinRatioNum * total_rows, MinRatioDen) - Size(reference)
        reps == Max(1, CeilDiv(needed_reference, Size(reference)))
        reference_augmented == Times(reference, reps)
        mixed == IF below THEN Concat(reference_augmented, client)
                          ELSE Concat(reference, client)
        refpart == IF below THEN Size(reference_augmented) ELSE Size(reference)
    IN [kind |-> "mix",
        mixed |-> mixed,
        report |-> [total_rows |-> Size(mixed), reference_rows |-> Size(reference),
                    client_rows |-> Size(client),
                    reference_ratio |-> Round4(refpart, Max(Size(mixed), 1)),
                    oversampled |-> below]]

\* save_reference, lines 44-45
SaveReference(frame) ==
    /\ ref_file' = [exists |-> TRUE, frame |-> frame]
    /\ UNCHANGED mixret

\* mix_for_training; an empty reference file is removed (lines 77-79) and
\* the call starts again without a reference
MixForTraining(client) ==
    /\ IF ~ref_file.exists
       THEN /\ mixret' = MixNoReference(client)
            /\ UNCHANGED ref_file
       ELSE IF Size(ref_file.frame) = 0
       THEN /\ ref_file' = NoFile
            /\ mixret' = MixNoReference(client)
       ELSE /\ mixret' = MixWithReference(ref_file.frame, client)
            /\ UNCHANGED ref_file

MixFrame == UNCHANGED <<schedVars, orderVars, repoVars, monVars, pipeVars, fsVars, lateVars>>

NextMix ==
    \/ (\E f \in ReferenceFrames : SaveReference(f)) /\ MixFrame
    \/ (\E c \in ClientFrames : MixForTraining(c)) /\ MixFrame

SpecMix == InitApi /\ [][NextMix]_vars

(***************************************************************************)
(* Properties of mix_for_training.                                         *)
(***************************************************************************)
\* C17: when a reference exists and |reference| / (|reference| + |client|)
\* is below min_reference_ratio, the returned mix has a share of reference
\* rows of at least min_reference_ratio, and the report has
\* reference_ratio >= min_reference_ratio and oversampled = true.
C17_MixRestoresMinimumRatio ==
    [][\A c \in ClientFrames :
        (/\ MixForTraining(c)
         /\ ref_file.exists
         /\ Size(ref_file.frame) > 0
         /\ Size(ref_file.frame) * MinRatioDen
              < MinRatioNum * (Size(ref_file.frame) + Size(c))) =>
            /\ mixret'.mixed.ref * MinRatioDen >= MinRatioNum * Size(mixret'.mixed)
            /\ mixret'.report.reference_ratio * MinRatioDen >= MinRatioNum * RatioScale
            /\ mixret'.report.oversampled]_vars

\* C18: mix_for_training with no reference store returns exactly the client
\* rows (the same multiset) and reports reference_rows = 0,
\* reference_ratio = 0 and oversampled = false.
C18_NoReferenceReturnsClientRows ==
    [][\A c \in ClientFrames :
        (MixForTraining(c) /\ ~ref_file.exists) =>
            /\ mixret'.mixed = c
            /\ mixret'.report.total_rows = Size(c)
            /\ mixret'.report.client_rows = Size(c)
            /\ mixret'.report.reference_rows = 0
            /\ mixret'.report.reference_ratio = 0
            /\ ~mixret'.report.oversampled
            /\ ~ref_file'.exists]_vars

\* C18 witness: without a reference file a mix of five client rows of two
\* kinds has been returned.
C18_Witness ==
    /\ ~ref_file.exists
    /\ mixret.kind = "mix"
    /\ mixret.mixed = Frame(0, 4, 1)
    /\ mixret.report.reference_rows = 0
    /\ mixret.report.client_rows = 5

(***************************************************************************)
(* NomenclatureClassifier: train() replaces self.pipeline, predict() reads *)
(* it.  A pipeline object is named by a number, in order of creation.      *)
(***************************************************************************)
MaxPipelines == 3

\* the task fails: the exception is set on its future
PredictFails(i) == [ptask EXCEPT ![i].state = "failed"]

\* train(), line 219: a new, unfitted pipeline is assigned
TrainAssign ==
    /\ trainpc = "idle"
    /\ pipeline < MaxPipelines
    /\ pipeline' = pipeline + 1
    /\ trainpc' = "fit"
    /\ UNCHANGED <<fitted, registry, ptask>>

\* train(), lines 222-239: self.pipeline.fit(...) and the validation metrics
TrainFit ==
    /\ trainpc = "fit"
    /\ fitted' = fitted \cup {pipeline}
    /\ trainpc' = "persist"
    /\ UNCHANGED <<pipeline, registry, ptask>>

\* train(), lines 241-243 and _persist_pipeline: joblib.dump(self.pipeline)
TrainPersist ==
    /\ trainpc = "persist"
    /\ registry' = registry \cup {pipeline}
    /\ trainpc' = "idle"
    /\ UNCHANGED <<pipeline, fitted, ptask>>

\* service.py 513-519: scheduler.submit(priority, classifier.predict, ...)
PSubmit(i) ==
    /\ ptask[i].state = "none"
    /\ ptask' = [ptask EXCEPT ![i] = [NoPredict EXCEPT !.state = "queued",
                                                       !.at_submit = pipeline]]
    /\ UNCHANGED <<pipeline, fitted, registry, trainpc>>

\* a worker calls predict(): lines 263-265, load_latest() (251-258) when no
\* pipeline is set
PStart(i) ==
    /\ ptask[i].state = "queued"
    /\ IF pipeline # 0
       THEN /\ ptask' = [ptask EXCEPT ![i].state = "scores", ![i].at_start = pipeline]
            /\ UNCHANGED <<pipeline, fitted>>
       ELSE IF registry = {}
       THEN /\ ptask' = PredictFails(i)
            /\ UNCHANGED <<pipeline, fitted>>
       ELSE /\ pipeline' = pipeline + 1
            /\ fitted' = fitted \cup {pipeline + 1}
            /\ ptask' = [ptask EXCEPT ![i].state = "scores",
                                      ![i].at_start = pipeline + 1]
    /\ UNCHANGED <<registry, trainpc>>

\* the scores are computed by the pipeline the task was submitted with
PScoresAtSubmit(i) ==
    /\ ptask[i].state = "scores"
    /\ ptask' = IF ptask[i].at_submit \in fitted
                THEN [ptask EXCEPT ![i].state = "classes",
                                   ![i].scores_by = ptask[i].at_submit]
                ELSE [ptask EXCEPT ![i].state = "failed",
                                   ![i].scores_by = ptask[i].at_submit]
    /\ UNCHANGED <<pipeline, fitted, registry, trainpc>>

\* predict(), line 268: self.pipeline.predict_proba(frame); an unfitted
\* pipeline raises
PScores(i) ==
    /\ ptask[i].state = "scores"
    /\ ptask' = IF pipeline \in fitted
                THEN [ptask EXCEPT ![i].state = "classes", ![i].scores_by = pipeline]
                ELSE [ptask EXCEPT ![i].state = "failed", ![i].scores_by = pipeline]
    /\ UNCHANGED <<pipeline, fitted, registry, trainpc>>

\* predict(), lines 269-295: self.pipeline.classes_, then the results
PClasses(i) ==
    /\ ptask[i].state = "classes"
    /\ ptask' = IF pipeline \in fitted
                THEN [ptask EXCEPT ![i].state = "done", ![i].classes_by = pipeline]
                ELSE [ptask EXCEPT ![i].state = "failed", ![i].classes_by = pipeline]
    /\ UNCHANGED <<pipeline, fitted, registry, trainpc>>

PipeFrame == UNCHANGED <<schedVars, orderVars, repoVars, monVars, mixVars, fsVars, lateVars>>

NextPipe ==
    \/ TrainAssign /\ PipeFrame
    \/ TrainFit /\ PipeFrame
    \/ TrainPersist /\ PipeFrame
    \/ (\E i \in PredictIds : PSubmit(i)) /\ PipeFrame
    \/ (\E i \in PredictIds : PStart(i)) /\ PipeFrame
    \/ (\E i \in PredictIds : PScores(i)) /\ PipeFrame
    \/ (\E i \in PredictIds : PClasses(i)) /\ PipeFrame

SpecPipe == InitApi /\ [][NextPipe]_vars

(***************************************************************************)
(* Properties of the pipeline attribute.                                   *)
(***************************************************************************)
\* C19: a predict task uses the pipeline object that is current when the
\* worker executes it, not the one current when it was submitted: every read
\* of the task returns the pipeline current at that moment, never an object
\* older than the one current when execution began, and if the pipeline was
\* replaced between submit and execution a finished prediction was computed
\* by the new pipeline, not by the one of submission time.
C19_PredictUsesPipelineAtExecution ==
    /\ [][\A i \in PredictIds :
            /\ ptask'[i].scores_by # ptask[i].scores_by => ptask'[i].scores_by = pipeline
            /\ ptask'[i].classes_by # ptask[i].classes_by => ptask'[i].classes_by = pipeline]_vars
    /\ [](\A i \in PredictIds :
            /\ ptask[i].scores_by # 0 => ptask[i].scores_by >= ptask[i].at_start
            /\ ptask[i].classes_by # 0 => ptask[i].classes_by >= ptask[i].at_start
            /\ (ptask[i].state = "done" /\ ptask[i].at_start # ptask[i].at_submit) =>
                   /\ ptask[i].at_start > ptask[i].at_submit
                   /\ ptask[i].scores_by > ptask[i].at_submit
                   /\ ptask[i].classes_by > ptask[i].at_submit)

\* C19 witness: a task submitted under pipeline 1 was executed after training
\* had replaced it and finished with pipeline 2.
C19_Witness ==
    \E i \in PredictIds :
        /\ ptask[i].state = "done"
        /\ ptask[i].at_submit = 1
        /\ ptask[i].at_start = 2
        /\ ptask[i].scores_by = 2
        /\ ptask[i].classes_by = 2

(***************************************************************************)
(* FeatureStore.ingest (feature_store.py 86-113), one action per file      *)
(* operation.  created_at is datetime.utcnow(), which advances with every  *)
(* call.                                                                   *)
(***************************************************************************)
MaxIngests == 3
ItemNames == {"Tea", "PEN"}
ItemLists == {<<>>, <<"Tea">>, <<"PEN", "Tea">>}

\* FeatureBuilder.build, lines 42-63: str.lower() of the name and the
\* derived name_len column (the other columns are built the same way)
Lower(name) ==
    IF name = "Tea" THEN "tea" ELSE IF name = "PEN" THEN "pen"
    ELSE IF name = "Soap" THEN "soap" ELSE name
StrLen(name) == IF name \in {"Soap", "soap"} THEN 4 ELSE 3
Build(items) == [i \in DOMAIN items |-> [name |-> Lower(items[i]), name_len |-> StrLen(items[i])]]

\* sorted(index["versions"], key=created_at): a stable insertion of the
\* appended entry
RECURSIVE InsertSorted(_, _)
InsertSorted(seq, m) ==
    IF seq = <<>> THEN <<m>>
    ELSE IF seq[Len(seq)].created_at <= m.created_at THEN Append(seq, m)
    ELSE Append(InsertSorted(SubSeq(seq, 1, Len(seq) - 1), m), seq[Len(seq)])

\* lines 92-106: build, the empty check, to_parquet(out_path), the meta
FsWriteTable(f, items, version) ==
    /\ fspc[f] = "idle"
    /\ clock < MaxIngests
    /\ IF Build(items) = <<>>
       THEN UNCHANGED <<fs_files, fspc, fsloc, clock>>
       ELSE /\ fs_files' = [fs_files EXCEPT ![version] = Build(items)]
            /\ fsloc' = [fsloc EXCEPT ![f] =
                            [version |-> version, table |-> Build(items), index |-> <<>>,
                             meta |-> [version |-> version, row_count |-> Len(items),
                                       created_at |-> clock]]]
            /\ clock' = clock + 1
            /\ fspc' = [fspc EXCEPT ![f] = "load_index"]
    /\ UNCHANGED <<fs_index, fs_done>>

\* line 108: index = self._load_index()
FsLoadIndex(f) ==
    /\ fspc[f] = "load_index"
    /\ fsloc' = [fsloc EXCEPT ![f].index = fs_index]
    /\ fspc' = [fspc EXCEPT ![f] = "persist"]
    /\ UNCHANGED <<fs_files, fs_index, fs_done, clock>>

\* lines 109-113: append, sort by created_at, _persist_index, return meta
FsPersistIndex(f) ==
    /\ fspc[f] = "persist"
    /\ fs_index' = InsertSorted(fsloc[f].index, fsloc[f].meta)
    /\ fsloc' = [fsloc EXCEPT ![f] = NoIngest]
    /\ fspc' = [fspc EXCEPT ![f] = "idle"]
    /\ fs_done' = Append(fs_done, [meta |-> fsloc[f].meta, table |-> fsloc[f].table])
    /\ UNCHANGED <<fs_files, clock>>

FsFrame ==
    UNCHANGED <<schedVars, orderVars, repoVars, mixVars, pipeVars, lateVars,
                requests, admin_logs, audit, mret, tpc, trk, tout>>

NextFs ==
    \/ (\E f \in FsThreads, items \in ItemLists, v \in FsVersions :
           FsWriteTable(f, items, v)) /\ FsFrame
    \/ (\E f \in FsThreads : FsLoadIndex(f)) /\ FsFrame
    \/ (\E f \in FsThreads : FsPersistIndex(f)) /\ FsFrame

SpecFs == InitApi /\ [][NextFs]_vars

(***************************************************************************)
(* Properties of the feature store.                                        *)
(***************************************************************************)
IndexEntries(index, v) == {i \in 1 .. Len(index) : index[i].version = v}

\* C20: once a feature-set version has been ingested (it has its table and
\* its index entry), its stored table and its index entry never change: no
\* later step overwrites the table or adds a second index entry for it.
C20_IngestedVersionIsImmutable ==
    [][\A v \in FsVersions :
        IndexEntries(fs_index, v) # {} =>
            /\ fs_files'[v] = fs_files[v]
            /\ Cardinality(IndexEntries(fs_index', v)) = 1]_vars

\* load(version), lines 115-126: the stored table of the version, or of the
\* last index entry when no version is given
Load(files, index, version) ==
    LET Read(v) == IF files[v] = NoTable
                   THEN [kind |-> "FileNotFoundError", table |-> NoTable]
                   ELSE [kind |-> "table", table |-> files[v]]
    IN IF version # None THEN Read(version)
       ELSE IF index = <<>> THEN [kind |-> "FileNotFoundError", table |-> NoTable]
       ELSE Read(index[Len(index)].version)

\* list_versions, lines 128-138: one FeatureSetMeta per index entry, in the
\* order of the index
ListVersions(index) ==
    [i \in 1 .. Len(index) |->
        [version |-> index[i].version, row_count |-> index[i].row_count,
         created_at |-> index[i].created_at]]

\* no ingest call is between its first and its last file operation
FsQuiescent == \A f \in FsThreads : fspc[f] = "idle"

\* C21: after any sequence of completed ingest calls, load() without a
\* version returns the table of the most recently ingested (latest created)
\* version, and list_versions() returns exactly the completed ingests in
\* creation order.
C21_LoadLatestAndListInCreationOrder ==
    (FsQuiescent /\ fs_done # <<>>) =>
        LET listed == ListVersions(fs_index)
            newest == CHOOSE d \in DOMAIN fs_done :
                         \A e \in DOMAIN fs_done :
                             fs_done[e].meta.created_at <= fs_done[d].meta.created_at
        IN /\ Len(listed) = Len(fs_done)
           /\ \A d \in DOMAIN fs_done : \E i \in DOMAIN listed : listed[i] = fs_done[d].meta
           /\ \A i, j \in DOMAIN listed : i < j => listed[i].created_at <= listed[j].created_at
           /\ Load(fs_files, fs_index, None) = [kind |-> "table", table |-> fs_done[newest].table]

(***************************************************************************)
(* DriftMonitor (drift_monitor.py 23-110).  The endpoints that call it are *)
(* sync functions, so calls of different requests interleave at the file   *)
(* operations.  Items carry a name only: their other fields are None, so   *)
(* token_count, full_name_len and the categorical columns are constant and *)
(* name_len is the one column whose distribution varies.                   *)
(***************************************************************************)
MaxDriftCalls == 4
DriftVersions == {"b1", "b2"}
BaselineLists == {<<"Tea">>, <<"Tea", "Soap">>}
ReportLists == {<<>>, <<"Tea">>, <<"Soap", "Tea">>}
Buckets == 10

NameLens(table) == [i \in DOMAIN table |-> table[i].name_len]

\* the values of a series in ascending order
SortedSeries(series) ==
    CHOOSE t \in [DOMAIN series -> {series[i] : i \in DOMAIN series}] :
        /\ \A i, j \in DOMAIN t : i < j => t[i] <= t[j]
        /\ \A v \in {series[i] : i \in DOMAIN series} :
              Cardinality({i \in DOMAIN t : t[i] = v})
                  = Cardinality({i \in DOMAIN series : series[i] = v})

\* _psi lines 64-65: expected.quantile(linspace(0, 1, buckets + 1)) with
\* linear interpolation, duplicates dropped; the edges are scaled by Buckets
QuantileEdges(expected) ==
    LET s == SortedSeries(expected)
        n == Len(s)
        Edge(k) == LET pos == k * (n - 1)
                       lo == (pos \div Buckets) + 1
                       hi == IF lo < n THEN lo + 1 ELSE n
                   IN Buckets * s[lo] + (pos % Buckets) * (s[hi] - s[lo])
    IN {Edge(k) : k \in 0 .. Buckets}

\* np.histogram, lines 68-71: bucket [lo, hi) and the last one [lo, hi]; the
\* outer edges are widened by 1e-9
Histogram(series, edges, lo) ==
    LET hi == CHOOSE e \in edges : e > lo /\ \A x \in edges : x > lo => e <= x
        last == \A x \in edges : x <= hi
    IN Cardinality({i \in DOMAIN series :
                      /\ lo <= Buckets * series[i]
                      /\ IF last THEN Buckets * series[i] <= hi
                                 ELSE Buckets * series[i] < hi})

\* _psi, lines 61-75: TRUE when the index is 0.  Every term
\* (e - a) * log(e / a) is >= 0, so the sum is 0 exactly when the clipped
\* fractions of every bucket are equal; a single edge returns 0.0 (line 67)
PsiIsZero(expected, actual) ==
    LET edges == QuantileEdges(expected)
    IN IF Cardinality(edges) <= 1 THEN TRUE
       ELSE \A lo \in {e \in edges : \E x \in edges : x > e} :
               Histogram(expected, edges, lo) * Len(actual)
                   = Histogram(actual, edges, lo) * Len(expected)

\* build_report, lines 85-110, on a baseline that was read: a frame built
\* from no items has no columns, so baseline[feature] / current[feature]
\* raises KeyError.  With at most two rows a bucket that differs is empty on
\* one side, its term is at least 0.5 * log(0.5 / 1e-6) > 6 and the mean of
\* the three numeric scores exceeds 0.2.
Report(baseline, meta, items) ==
    IF baseline = <<>> \/ Build(items) = <<>>
    THEN [kind |-> "KeyError"]
    ELSE LET zero == PsiIsZero(NameLens(baseline), NameLens(Build(items)))
         IN [kind |-> "report", psi_is_zero |-> zero, triggered |-> ~zero,
             baseline_version |-> IF meta.exists THEN meta.version ELSE None]

\* has_baseline, lines 52-53
HasBaseline == base_file # NoTable /\ base_meta.exists

\* update_baseline, lines 44-45: features.to_parquet(self.baseline_path)
UpdateBaselineTable(d, items, version) ==
    /\ dpc[d] = "idle"
    /\ clock < MaxDriftCalls
    /\ clock' = clock + 1
    /\ base_file' = Build(items)
    /\ dloc' = [dloc EXCEPT ![d] = [NoDrift EXCEPT !.op = "update", !.items = items,
                                                   !.version = version]]
    /\ dpc' = [dpc EXCEPT ![d] = "meta"]
    /\ UNCHANGED <<base_meta, dret, drift_done>>

\* update_baseline, lines 46-50: meta_path.write_text(...), return meta
UpdateBaselineMeta(d) ==
    /\ dpc[d] = "meta"
    /\ base_meta' = [exists |-> TRUE, version |-> dloc[d].version,
                     row_count |-> Len(dloc[d].items)]
    /\ dret' = [dret EXCEPT ![d] = [kind |-> "meta", version |-> dloc[d].version,
                                    row_count |-> Len(dloc[d].items)]]
    /\ drift_done' = [items |-> dloc[d].items, version |-> dloc[d].version]
    /\ dloc' = [dloc EXCEPT ![d] = NoDrift]
    /\ dpc' = [dpc EXCEPT ![d] = "idle"]
    /\ UNCHANGED <<base_file, clock>>

\* a degraded report instead of the error when the baseline is missing
EnsureBaselineDegraded(d, items) ==
    /\ dpc[d] = "idle"
    /\ clock < MaxDriftCalls
    /\ clock' = clock + 1
    /\ IF base_file = NoTable
       THEN /\ dret' = [dret EXCEPT ![d] =
                           [kind |-> "report", psi_is_zero |-> TRUE, triggered |-> FALSE,
                            baseline_version |-> None]]
            /\ UNCHANGED <<dpc, dloc>>
       ELSE /\ dloc' = [dloc EXCEPT ![d] = [NoDrift EXCEPT !.op = "report", !.items = items,
                                                           !.baseline = base_file]]
            /\ dpc' = [dpc EXCEPT ![d] = "report"]
            /\ UNCHANGED dret
    /\ UNCHANGED <<base_file, base_meta, drift_done>>

\* build_report line 84, _ensure_baseline lines 34-39: FileNotFoundError when
\* the baseline file does not exist, else read_parquet
EnsureBaseline(d, items) ==
    /\ dpc[d] = "idle"
    /\ clock < MaxDriftCalls
    /\ clock' = clock + 1
    /\ IF base_file = NoTable
       THEN /\ dret' = [dret EXCEPT ![d] = [kind |-> "FileNotFoundError"]]
            /\ UNCHANGED <<dpc, dloc>>
       ELSE /\ dloc' = [dloc EXCEPT ![d] = [NoDrift EXCEPT !.op = "report", !.items = items,
                                                           !.baseline = base_file]]
            /\ dpc' = [dpc EXCEPT ![d] = "report"]
            /\ UNCHANGED dret
    /\ UNCHANGED <<base_file, base_meta, drift_done>>

\* build_report, lines 85-110: the scores, _load_meta(), the DriftReport
BuildReport(d) ==
    /\ dpc[d] = "report"
    /\ dret' = [dret EXCEPT ![d] = Report(dloc[d].baseline, base_meta, dloc[d].items)]
    /\ dloc' = [dloc EXCEPT ![d] = NoDrift]
    /\ dpc' = [dpc EXCEPT ![d] = "idle"]
    /\ UNCHANGED <<base_file, base_meta, drift_done, clock>>

DriftFrame ==
    UNCHANGED <<schedVars, orderVars, repoVars, mixVars, pipeVars, fsVars, pollVars, logVars,
                appendVars, schemaVars, shutVars, verVars,
                requests, admin_logs, audit, mret, tpc, trk, tout, retryVars>>

NextDrift ==
    \/ (\E d \in DriftThreads, items \in BaselineLists, v \in DriftVersions :
           UpdateBaselineTable(d, items, v)) /\ DriftFrame
    \/ (\E d \in DriftThreads : UpdateBaselineMeta(d)) /\ DriftFrame
    \/ (\E d \in DriftThreads, items \in ReportLists : EnsureBaseline(d, items)) /\ DriftFrame
    \/ (\E d \in DriftThreads : BuildReport(d)) /\ DriftFrame

SpecDrift == InitApi /\ [][NextDrift]_vars

\* C22: build_report called when no baseline is stored raises the
\* missing-baseline error and returns no report: the call ends at once with
\* FileNotFoundError, and no call that found the baseline missing goes on to
\* build a report.
C22_MissingBaselineRaises ==
    /\ [][\A d \in DriftThreads, items \in ReportLists :
            (EnsureBaseline(d, items) /\ base_file = NoTable) =>
                /\ dret'[d] = [kind |-> "FileNotFoundError"]
                /\ dpc'[d] = "idle"]_vars
    /\ [][\A d \in DriftThreads :
            (dret'[d] # dret[d] /\ dret'[d].kind = "report") =>
                dloc[d].op = "report" /\ dloc[d].baseline # NoTable]_vars

C22_Witness ==
    \E d \in DriftThreads : dret[d].kind = "FileNotFoundError"

\* no DriftMonitor call is in progress
DriftQuiescent == \A d \in DriftThreads : dpc[d] = "idle"

\* C23: after update_baseline(items, v) completes, has_baseline() is true
\* and build_report on the same items reports population_stability_index 0,
\* triggered = false and baseline_version v.
C23_ReportOnBaselineItemsIsZero ==
    (DriftQuiescent /\ drift_done # NoUpdate) =>
        /\ HasBaseline
        /\ Report(base_file, base_meta, drift_done.items)
              = [kind |-> "report", psi_is_zero |-> TRUE, triggered |-> FALSE,
                 baseline_version |-> drift_done.version]

(***************************************************************************)
(* poll_workers (service.py 214-237) beside a one-worker pool.  A round of *)
(* the poller runs on the event loop without interruption; snapshot()      *)
(* reads the counters under the scheduler's lock.                          *)
(***************************************************************************)
MaxSnapshots == 3
PruneDays == 7
HoursPerDay == 24

\* PriorityScheduler.snapshot, priority_scheduler.py lines 73-80
Snapshot ==
    [active_workers |-> active_workers, queued_tasks |-> Cardinality(queue),
     completed_tasks |-> completed_tasks, error_tasks |-> error_tasks]

\* record_worker_snapshot, store.py lines 248-270: the inserted row
SnapshotRow(snap, now) ==
    [active_workers |-> snap.active_workers, queued_tasks |-> snap.queued_tasks,
     completed_tasks |-> snap.completed_tasks, error_tasks |-> snap.error_tasks,
     created_at |-> now]

\* prune_worker_snapshots, store.py lines 272-279: DELETE ... WHERE
\* created_at < utcnow() - days (the clock counts hours)
PruneWorkerSnapshots(rows, now, days) ==
    SelectSeq(rows, LAMBDA r : ~(r.created_at < now - days * HoursPerDay))

\* one round of the loop, lines 217-235
PollRound ==
    /\ Len(worker_snapshots) < MaxSnapshots
    /\ LET snapshot == Snapshot
           changed == last_snapshot = NoSnapshot
                      \/ \E key \in DOMAIN snapshot : snapshot[key] # last_snapshot[key]
       IN IF changed \/ snapshot.error_tasks # 0
          THEN /\ worker_snapshots' =
                     PruneWorkerSnapshots(Append(worker_snapshots, SnapshotRow(snapshot, clock)),
                                          clock, PruneDays)
               /\ last_snapshot' = snapshot
          ELSE UNCHANGED <<worker_snapshots, last_snapshot>>

PollFrame ==
    UNCHANGED <<orderVars, repoVars, monVars, mixVars, pipeVars, fsVars, driftVars, logVars,
                appendVars, schemaVars, shutVars,
                verVars, retryVars>>

NextPoll ==
    \/ (\E p \in Priorities : SubmitCount("c1", p)) /\ UNCHANGED pollVars /\ PollFrame
    \/ SubmitPut("c1") /\ UNCHANGED pollVars /\ PollFrame
    \/ FutureResult("c1") /\ UNCHANGED pollVars /\ PollFrame
    \/ WorkerLoop(1) /\ UNCHANGED pollVars /\ PollFrame
    \/ WorkerGet(1) /\ UNCHANGED pollVars /\ PollFrame
    \/ WorkerEmpty(1) /\ UNCHANGED pollVars /\ PollFrame
    \/ WorkerStart(1) /\ UNCHANGED pollVars /\ PollFrame
    \/ TaskReturn(1) /\ UNCHANGED pollVars /\ PollFrame
    \/ TaskRaise(1) /\ UNCHANGED pollVars /\ PollFrame
    \/ WorkerCountCompleted(1) /\ UNCHANGED pollVars /\ PollFrame
    \/ WorkerCountError(1) /\ UNCHANGED pollVars /\ PollFrame
    \/ WorkerTaskDone(1) /\ UNCHANGED pollVars /\ PollFrame
    \/ PollRound /\ UNCHANGED schedVars /\ PollFrame

SpecPoll == InitApi /\ [][NextPoll]_vars

\* C24: the poller appends a WorkerSnapshot in a polling round only if the
\* scheduler snapshot differs from the last one it recorded; a round in
\* which nothing changed appends nothing.
C24_PollerAppendsOnlyOnChange ==
    [][(PollRound /\ Snapshot = last_snapshot) =>
           worker_snapshots' = worker_snapshots]_vars

(***************************************************************************)
(* Endpoints that write the event log or the admin log beside their main   *)
(* work: the error path of train and predict (service.py 413-423,          *)
(* 527-536), activate_model (635-645) and stop_request (monitoring/app.py  *)
(* 266-274).  record_event and record_admin_action run an INSERT in a      *)
(* transaction of their own (store.py 99-125); whether it fails is an      *)
(* input of the call.  One request at a time.                              *)
(***************************************************************************)
MaxEvents == 2

LogError == "OperationalError"
HttpError == "HTTPException"

\* record_event, store.py 110-125
RecordEvent(events, level, source) == Append(events, [level |-> level, source |-> source])

\* record_admin_action, store.py 99-108
RecordAdminAction(logs, action, id, now) ==
    Append(logs, [action |-> action, request_id |-> id, created_at |-> now])

\* the except block of train / predict after tracker.update(status="error"):
\* record_event, then raise HTTPException (service.py 415-423, 529-536); an
\* exception of record_event leaves the block in its place
TReportFailure(t, fails) ==
    /\ tpc[t] = "raising"
    /\ Len(system_events) < MaxEvents
    /\ IF fails
       THEN /\ trk' = [trk EXCEPT ![t].exc = LogError]
            /\ UNCHANGED system_events
       ELSE /\ system_events' = RecordEvent(system_events, "error", "train")
            /\ trk' = [trk EXCEPT ![t].exc = HttpError]
    /\ tpc' = [tpc EXCEPT ![t] = "exit_err"]
    /\ UNCHANGED <<requests, admin_logs, audit, clock, mret, tout, resp>>

\* activate_model endpoint, service.py 635-645, with repository.activate_model
\* (repository.py 400-416) run by a single connection
ActivateModelEndpoint(version, key, fails) ==
    /\ writer = NoConn
    /\ Len(system_events) < MaxEvents
    /\ LET OfKey(m) == m.model_key = key
           OfVersion(m) == m.version = version
           models == SetStatus(SetStatus(db.models, OfKey, "archived"), OfVersion, "active")
       IN /\ db' = [db EXCEPT !.models = models]
          /\ wdb' = [db EXCEPT !.models = models]
    /\ IF fails
       THEN /\ resp' = [endpoint |-> "activate_model", kind |-> "raised", status |-> LogError]
            /\ UNCHANGED system_events
       ELSE /\ resp' = [endpoint |-> "activate_model", kind |-> "ok", status |-> "activated"]
            /\ system_events' = RecordEvent(system_events, "info", "models")
    /\ UNCHANGED <<writer, rpc, rop, rloc, rres, rpre, ncalls>>

\* stop_request, monitoring/app.py 266-274
StopRequestEndpoint(id, fails) ==
    /\ Len(admin_logs) < MaxStops
    /\ requests' = UpdateRequest(requests, id, "stopped", 100, None, None, clock)
    /\ IF fails
       THEN /\ resp' = [endpoint |-> "stop_request", kind |-> "raised", status |-> LogError]
            /\ UNCHANGED admin_logs
       ELSE /\ resp' = [endpoint |-> "stop_request", kind |-> "ok", status |-> "stopped"]
            /\ admin_logs' = RecordAdminAction(admin_logs, "stop_request", id, clock)
    /\ UNCHANGED <<audit, clock, mret, tpc, trk, tout, system_events>>

LogsTrackFrame ==
    UNCHANGED <<schedVars, orderVars, repoVars, mixVars, pipeVars, fsVars,
                driftVars, pollVars, logVars, appendVars, schemaVars, shutVars,
                verVars, retryVars>>

LogsRepoFrame ==
    UNCHANGED <<schedVars, orderVars, monVars, mixVars, pipeVars, fsVars,
                driftVars, pollVars, logVars, appendVars, schemaVars, shutVars,
                verVars, retryVars>>

LogsFrame ==
    UNCHANGED <<schedVars, orderVars, mixVars, pipeVars, fsVars, driftVars, pollVars,
                appendVars, schemaVars, shutVars,
                verVars, retryVars>>

\* no request is being served
LogsIdle == tpc["t1"] = "idle" /\ rpc["p1"] = "idle"

NextLogs ==
    \/ LogsIdle /\ (\E a \in BOOLEAN : TEnterStart("t1", None, a)) /\ LogsTrackFrame
    \/ TEnterRun("t1") /\ LogsTrackFrame
    \/ TEnterLog("t1") /\ LogsTrackFrame
    \/ (\E x \in ExcTexts : TUpdateError("t1", x)) /\ LogsTrackFrame
    \/ (\E fails \in BOOLEAN : TReportFailure("t1", fails)) /\ UNCHANGED repoVars /\ LogsFrame
    \/ TExitError("t1") /\ LogsTrackFrame
    \/ TExitErrorLog("t1") /\ LogsTrackFrame
    \/ LogsIdle /\ (\E v \in Labels, k \in PersistKeys : CallSave("p1", v, k, FALSE))
          /\ LogsRepoFrame
    \/ SmInsert("p1") /\ LogsRepoFrame
    \/ SmCommit("p1") /\ LogsRepoFrame
    \/ LogsIdle /\ (\E v \in Labels, k \in PersistKeys, fails \in BOOLEAN :
                      ActivateModelEndpoint(v, k, fails)) /\ UNCHANGED monVars /\ LogsFrame
    \/ LogsIdle /\ (\E id \in 1 .. Len(requests), fails \in BOOLEAN :
                      StopRequestEndpoint(id, fails)) /\ UNCHANGED repoVars /\ LogsFrame

SpecLogs == InitApi /\ [][NextLogs]_vars

\* C25: a failing event-log or admin-log write never makes the primary
\* operation fail or changes its outcome: the error path of train and
\* predict still raises its HTTPException, model activation still answers
\* "activated" and stop-request still answers "stopped", as when the log
\* write succeeds.
C25_LogFailureKeepsOutcome ==
    /\ [][TReportFailure("t1", TRUE) => trk'["t1"].exc = HttpError]_vars
    /\ [][\A v \in Labels, k \in PersistKeys :
            ActivateModelEndpoint(v, k, TRUE) =>
                resp' = [endpoint |-> "activate_model", kind |-> "ok", status |-> "activated"]]_vars
    /\ [][\A id \in 1 .. Len(requests) :
            StopRequestEndpoint(id, TRUE) =>
                resp' = [endpoint |-> "stop_request", kind |-> "ok", status |-> "stopped"]]_vars

(***************************************************************************)
(* The operations of the Monitoring Store that write or delete rows        *)
(* (store.py 99-279, 414-425) and the admin endpoints built on them        *)
(* (monitoring/app.py 256-288), called one at a time while days pass.      *)
(***************************************************************************)
MaxAdminLogs == 1
MaxTicks == 1
MaxStoreRows == 1
MaxStoreSnapshots == 1
CleanupDays == 30
TickDays == CleanupDays + 1

\* record_worker_snapshot, store.py 248-270
RecordWorkerSnapshot ==
    /\ Len(worker_snapshots) < MaxStoreSnapshots
    /\ worker_snapshots' = Append(worker_snapshots, SnapshotRow(Snapshot, clock))
    /\ UNCHANGED <<last_snapshot, mret>>

\* prune_worker_snapshots(days), store.py 272-279: returns the row count
PruneCall(days) ==
    /\ worker_snapshots' = PruneWorkerSnapshots(worker_snapshots, clock, days)
    /\ mret' = [kind |-> "pruned",
                count |-> Len(worker_snapshots)
                          - Len(PruneWorkerSnapshots(worker_snapshots, clock, days))]
    /\ UNCHANGED last_snapshot

\* cleanup_logs, app.py 284-286: DELETE FROM admin_logs WHERE created_at < cutoff
CleanupAdminLogs(logs, now) ==
    SelectSeq(logs, LAMBDA r : ~(r.created_at < now - CleanupDays * HoursPerDay))

\* the cleanup also deletes the requests started before the cutoff
CleanupLogsAlsoRequests ==
    /\ Len(CleanupAdminLogs(admin_logs, clock)) < MaxAdminLogs
    /\ admin_logs' = RecordAdminAction(CleanupAdminLogs(admin_logs, clock),
                                       "cleanup_logs", 0, clock)
    /\ requests' = SelectSeq(requests,
                      LAMBDA r : ~(r.started_at < clock - CleanupDays * HoursPerDay))
    /\ resp' = [endpoint |-> "cleanup_logs", kind |-> "ok", status |-> "ok"]
    /\ UNCHANGED <<audit, clock, mret, tpc, trk, tout, system_events>>

\* cleanup_logs, app.py 277-288
CleanupLogs ==
    /\ Len(CleanupAdminLogs(admin_logs, clock)) < MaxAdminLogs
    /\ admin_logs' = RecordAdminAction(CleanupAdminLogs(admin_logs, clock),
                                       "cleanup_logs", 0, clock)
    /\ resp' = [endpoint |-> "cleanup_logs", kind |-> "ok", status |-> "ok"]
    /\ UNCHANGED <<requests, audit, clock, mret, tpc, trk, tout, system_events>>

\* init_database, app.py 256-263: initialize_database (store.py 414-425) runs
\* sql/sqlite_schema.sql, taken to create the tables that are missing
InitDatabase ==
    /\ Len(admin_logs) < MaxAdminLogs
    /\ admin_logs' = RecordAdminAction(admin_logs, "db_init", 0, clock)
    /\ resp' = [endpoint |-> "init_database", kind |-> "ok", status |-> "ok"]
    /\ UNCHANGED <<requests, audit, clock, mret, tpc, trk, tout, system_events>>

\* days pass between two calls
StoreTick ==
    /\ clock + TickDays * HoursPerDay <= MaxTicks * TickDays * HoursPerDay
    /\ clock' = clock + TickDays * HoursPerDay
    /\ UNCHANGED <<requests, admin_logs, audit, mret, tpc, trk, tout>>

StoreBase ==
    UNCHANGED <<schedVars, orderVars, repoVars, mixVars, pipeVars, fsVars, driftVars,
                appendVars, schemaVars, shutVars,
                verVars, retryVars>>

NextStore ==
    \/ StoreStart(None, MaxStoreRows) /\ MonFrame
    \/ (\E id \in 1 .. MaxStoreRows : StoreUpdate(id, "completed", NoProgress, None, None))
          /\ MonFrame
    \/ (\E id \in 1 .. Len(requests) : StopRequestEndpoint(id, FALSE))
          /\ UNCHANGED pollVars /\ StoreBase
    \/ RecordWorkerSnapshot
          /\ UNCHANGED <<requests, admin_logs, audit, clock, tpc, trk, tout, logVars>>
          /\ StoreBase
    \/ (\E days \in {1, PruneDays} : PruneCall(days))
          /\ UNCHANGED <<requests, admin_logs, audit, clock, tpc, trk, tout, logVars>>
          /\ StoreBase
    \/ CleanupLogs /\ UNCHANGED pollVars /\ StoreBase
    \/ InitDatabase /\ UNCHANGED pollVars /\ StoreBase
    \/ StoreTick /\ MonFrame

SpecStore == InitApi /\ [][NextStore]_vars

\* the ids of the Request rows: the primary key is never reused
RequestIds == 1 .. Len(requests)

\* the rows of a table that a step removed
Removed(before, after) == {i \in 1 .. Len(before) : \A j \in 1 .. Len(after) : after[j] # before[i]}

Row(name, kind, label) == [name |-> name, full_name |-> None, kind |-> kind, label |-> label]

RowKey(row) == <<row.name, row.full_name, row.kind>>

AppendLists ==
    { <<>>,
      <<Row("Tea", None, "a")>>,
      <<Row("Tea", None, "b"), Row("Soap", None, "a")>>,
      <<Row("Tea", "goods", "a"), Row("Tea", "goods", "b")>> }

\* DataFrame.drop_duplicates(subset=[name, full_name, kind]): the first row
\* of every key is kept, in order.
RECURSIVE DropDuplicates(_)
DropDuplicates(rows) ==
    IF rows = <<>> THEN <<>>
    ELSE LET front == DropDuplicates(SubSeq(rows, 1, Len(rows) - 1))
             last == rows[Len(rows)]
         IN IF \E i \in DOMAIN front : RowKey(front[i]) = RowKey(last)
            THEN front
            ELSE Append(front, last)

\* Lines 48-53: build the frame, return at once when it is empty, otherwise
\* read the stored rows when the file exists.
AppendReferenceLoad(a, items) ==
    /\ apc[a] = "idle"
    /\ IF items = <<>>
       THEN UNCHANGED <<apc, aloc>>
       ELSE /\ aloc' = [aloc EXCEPT ![a] =
                           [frame |-> items,
                            existing |-> IF ref_rows.exists THEN ref_rows.rows ELSE <<>>]]
            /\ apc' = [apc EXCEPT ![a] = "loaded"]
    /\ UNCHANGED ref_rows

\* Lines 53-57: concat, drop_duplicates, save_reference.
AppendReferenceSave(a) ==
    /\ apc[a] = "loaded"
    /\ ref_rows' = [exists |-> TRUE,
                    rows |-> DropDuplicates(aloc[a].existing \o aloc[a].frame)]
    /\ apc' = [apc EXCEPT ![a] = "idle"]
    /\ aloc' = [aloc EXCEPT ![a] = NoAppend]

AppendFrame ==
    UNCHANGED <<schedVars, orderVars, repoVars, monVars, mixVars, pipeVars, fsVars,
                driftVars, pollVars, logVars, schemaVars,
                shutVars, verVars, retryVars>>

NextAppend ==
    \/ (\E a \in AppendThreads, items \in AppendLists : AppendReferenceLoad(a, items))
           /\ AppendFrame
    \/ (\E a \in AppendThreads : AppendReferenceSave(a)) /\ AppendFrame

SpecAppend == InitApi /\ [][NextAppend]_vars

\* C27: after any append_reference calls the reference store holds no two
\* rows with the same (name, full_name, kind); a row once stored stays the
\* stored row of its key; and a call whose items are all stored already
\* leaves the store unchanged.
C27_AppendKeepsFirstRowPerKey ==
    /\ [](\A i, j \in DOMAIN ref_rows.rows :
             RowKey(ref_rows.rows[i]) = RowKey(ref_rows.rows[j]) => i = j)
    /\ [][\A i \in DOMAIN ref_rows.rows :
             \E j \in DOMAIN ref_rows'.rows : ref_rows'.rows[j] = ref_rows.rows[i]]_vars
    /\ [][\A a \in AppendThreads :
             (/\ AppendReferenceSave(a)
              /\ \A k \in DOMAIN aloc[a].frame :
                    \E i \in DOMAIN ref_rows.rows : ref_rows.rows[i] = aloc[a].frame[k])
                => ref_rows' = ref_rows]_vars

(***************************************************************************)
(* MlRepository._ensure_schema (repository.py 53-161), run by __init__     *)
(* when the repository module is imported.  The store it finds was made    *)
(* by an earlier version of the schema: each table is absent, bare, up to  *)
(* date, or partly migrated with a column of its own.                      *)
(***************************************************************************)
MaxRuns == 2

FirstRequired(table) ==
    RequiredColumns[CHOOSE i \in DOMAIN RequiredColumns :
                        /\ RequiredColumns[i][1] = table
                        /\ \A j \in 1 .. i - 1 : RequiredColumns[j][1] # table][2]

StoredKinds == {"absent", "bare", "current", "partial"}

StoredTable(table, kind) ==
    CASE kind = "absent" -> NoSuchTable
      [] kind = "bare" -> Table({"id"})
      [] kind = "current" -> Table({"id"} \cup RequiredOf(table))
      [] kind = "partial" ->
             Table({"id", "legacy"} \cup (RequiredOf(table) \ {FirstRequired(table)}))

InitStores ==
    /\ db_schema \in {[t \in SchemaTables |-> StoredTable(t, kinds[t])] :
                          kinds \in [SchemaTables -> StoredKinds]}
    /\ ens_state = "idle"
    /\ ens_pos = 1
    /\ ens_runs = 0

\* __init__ line 41: the check starts.
EnsureSchemaStart ==
    /\ ens_state # "running"
    /\ ens_runs < MaxRuns
    /\ ens_state' = "running"
    /\ ens_pos' = 1
    /\ ens_runs' = ens_runs + 1
    /\ UNCHANGED db_schema

\* One _ensure_column call (155-161): PRAGMA table_info gives no rows for a
\* table that does not exist, so the column counts as missing and ALTER
\* TABLE raises OperationalError, which ends _ensure_schema; otherwise the
\* column is added when it is missing, and committed.
EnsureColumn ==
    /\ ens_state = "running"
    /\ LET table == RequiredColumns[ens_pos][1]
           column == RequiredColumns[ens_pos][2]
           columns == IF db_schema[table].exists THEN db_schema[table].columns ELSE {}
       IN IF column \notin columns
          THEN IF db_schema[table].exists
               THEN /\ db_schema' = [db_schema EXCEPT ![table].columns = @ \cup {column}]
                    /\ ens_pos' = ens_pos + 1
                    /\ ens_state' = IF ens_pos = Len(RequiredColumns) THEN "done" ELSE "running"
               ELSE /\ ens_state' = "raised"
                    /\ UNCHANGED <<db_schema, ens_pos>>
          ELSE /\ ens_pos' = ens_pos + 1
               /\ ens_state' = IF ens_pos = Len(RequiredColumns) THEN "done" ELSE "running"
               /\ UNCHANGED db_schema
    /\ UNCHANGED ens_runs

SchemaFrame ==
    UNCHANGED <<schedVars, orderVars, repoVars, monVars, mixVars, pipeVars, fsVars,
                driftVars, pollVars, logVars, appendVars, shutVars,
                verVars, retryVars>>

NextSchema ==
    \/ EnsureSchemaStart /\ SchemaFrame
    \/ EnsureColumn /\ SchemaFrame

InitSchemaCheck ==
    /\ InitSched /\ max_workers = 1 /\ InitRepo
    /\ InitMon /\ InitMix /\ InitPipe /\ InitFs /\ InitLateBase /\ InitStores

SpecSchema == InitSchemaCheck /\ [][NextSchema]_vars

\* C28: the startup schema check only adds columns: no table or column of
\* the store ever goes away, once the check has ended every existing table
\* has each of its required columns, and a check run on the result of an
\* earlier check changes nothing.
C28_SchemaCheckOnlyAddsColumns ==
    /\ [][\A t \in SchemaTables :
             /\ db_schema'[t].exists = db_schema[t].exists
             /\ db_schema[t].columns \subseteq db_schema'[t].columns
             /\ db_schema'[t].columns \ db_schema[t].columns \subseteq RequiredOf(t)]_vars
    /\ [](ens_state \in {"done", "raised"} =>
             \A t \in SchemaTables :
                 db_schema[t].exists => RequiredOf(t) \subseteq db_schema[t].columns)
    /\ [][ens_runs > 1 => db_schema' = db_schema]_vars

(***************************************************************************)
(* The one-worker pool with its worker thread scheduled fairly.  The       *)
(* worker is a running thread (priority_scheduler.py 24-28) that the       *)
(* interpreter keeps scheduling: whenever it can take a step of _worker    *)
(* it eventually takes one; queue.get returns the entry or times out, and  *)
(* the task function, which terminates, returns or raises.  shutdown() is  *)
(* not called and at most MaxTasks tasks are submitted.                    *)
(***************************************************************************)
WorkerStep == NextOne /\ wpc' # wpc

SpecLive == InitOne /\ [][NextOne]_vars /\ WF_vars(WorkerStep)

ShutdownWait ==
    /\ sdpc = NotJoining
    /\ Shutdown
    /\ sdpc' = [state |-> "join", thread |-> 1]

\* Line 70: the loop over self._threads.
JoinNext ==
    IF sdpc.thread = max_workers
    THEN [state |-> "returned", thread |-> 0]
    ELSE [state |-> "join", thread |-> sdpc.thread + 1]

\* Line 71: the joined thread has ended.
JoinThread ==
    /\ sdpc.state = "join"
    /\ wpc[sdpc.thread] = "exited"
    /\ sdpc' = JoinNext
    /\ UNCHANGED schedVars

\* Line 71: the timeout passes while the joined thread runs a task function.
JoinTimeout ==
    /\ sdpc.state = "join"
    /\ wpc[sdpc.thread] = "exec"
    /\ sdpc' = JoinNext
    /\ UNCHANGED schedVars

ShutdownFrame ==
    UNCHANGED <<orderVars, repoVars, monVars, mixVars, pipeVars, fsVars,
                driftVars, pollVars, logVars, appendVars, schemaVars,
                verVars, retryVars>>

NextShutdown ==
    \/ (\E p \in Priorities : SubmitCount("c1", p)) /\ SchedFrame
    \/ SubmitPut("c1") /\ SchedFrame
    \/ FutureResult("c1") /\ SchedFrame
    \/ FutureTimeout("c1") /\ SchedFrame
    \/ (\E w \in WorkerIds : WorkerLoop(w)) /\ SchedFrame
    \/ (\E w \in WorkerIds : WorkerGet(w)) /\ SchedFrame
    \/ (\E w \in WorkerIds : WorkerEmpty(w)) /\ SchedFrame
    \/ (\E w \in WorkerIds : WorkerStart(w)) /\ SchedFrame
    \/ (\E w \in WorkerIds : TaskReturn(w)) /\ SchedFrame
    \/ (\E w \in WorkerIds : TaskRaise(w)) /\ SchedFrame
    \/ (\E w \in WorkerIds : WorkerCountCompleted(w)) /\ SchedFrame
    \/ (\E w \in WorkerIds : WorkerCountError(w)) /\ SchedFrame
    \/ (\E w \in WorkerIds : WorkerTaskDone(w)) /\ SchedFrame
    \/ ShutdownWait /\ ShutdownFrame
    \/ JoinThread /\ ShutdownFrame
    \/ JoinTimeout /\ ShutdownFrame

SpecShutdown == Init /\ [][NextShutdown]_vars

\* C30: after shutdown(wait=True) has returned every worker thread has
\* stopped: none is executing a task and none is at a point of _worker from
\* which it could still dequeue one.
C30_ShutdownStopsEveryWorker ==
    sdpc.state = "returned" => \A w \in 1 .. max_workers : wpc[w] = "exited"

(***************************************************************************)
(* activate_model as seen by other connections (repository.py 400-416,     *)
(* 43-51).  A reader on its own connection sees the committed tables, db.  *)
(***************************************************************************)
Activated(models, key, version) ==
    LET OfKey(m) == m.model_key = key
        OfVersion(m) == m.version = version
    IN SetStatus(SetStatus(models, OfKey, "archived"), OfVersion, "active")

\* C31: activate_model is atomic for observers: the committed models table
\* does not change while the call archives and activates, and changes at the
\* commit from the table before the call to the table with both UPDATEs
\* applied; and when an activation returns, also beside another activation of
\* the same key, the key has at most one active Model.
C31_ActivateIsAtomic ==
    /\ [][\A p \in Procs :
             (rpc[p] \in {"am_archive", "am_activate"} /\ rpc'[p] # rpc[p])
                 => db' = db]_vars
    /\ [][\A p \in Procs :
             (rpc[p] = "am_commit" /\ ~rloc[p].nested /\ rpc'[p] = "idle")
                 => /\ db'.models = Activated(db.models, rop[p].key, rop[p].label)
                    /\ Cardinality(ActiveOf(db'.models, rop[p].key)) <= 1]_vars

\* Two activations of one key are in flight: one has run both UPDATEs on a
\* stored Model and not yet committed, the other waits for the write lock,
\* and a reader still sees the table as it was before the first.
C31_Witness ==
    \E p, q \in Procs :
        /\ p # q
        /\ rop[p].op = "activate_model" /\ rop[q].op = "activate_model"
        /\ rop[p].key = rop[q].key
        /\ rpc[p] = "am_commit" /\ rpc[q] = "am_archive"
        /\ ModelKeyTaken(db, rop[p].key, rop[p].label)
        /\ ActiveOf(wdb.models, rop[p].key) # ActiveOf(db.models, rop[p].key)

\* C32: build_report raises the missing-baseline error exactly when
\* has_baseline() is false, in every state update_baseline calls can reach,
\* the one between writing the table and writing the meta file included.
C32_RaisesExactlyWithoutBaseline ==
    [][\A d \in DriftThreads, items \in ReportLists :
          EnsureBaseline(d, items) => ((dpc'[d] = "idle") <=> ~HasBaseline)]_vars

(***************************************************************************)
(* The predictions_log row of a request with every column that             *)
(* log_request_start, attach_model_version_to_log and finalize_request_log *)
(* write (repository.py 418-491).  The tracker attaches a model version    *)
(* inside the tracked block, before it finalizes the row (service.py       *)
(* 154-197, 399).                                                          *)
(***************************************************************************)
AuditIds == {1, 2}
AuditVersions == {"v1", "v2"}
AuditTexts == {None, "text"}

\* log_request_start, lines 430-442
LogRequestStart(version) ==
    /\ Len(audit) < Cardinality(AuditIds)
    /\ audit' = Append(audit, [status |-> "pending", model_version |-> version,
                               response_payload |-> None, error_message |-> None,
                               completed_at |-> NoTime, workers_allocated |-> 1])
    /\ UNCHANGED <<requests, admin_logs, clock, mret, tpc, trk, tout>>

\* attach_model_version_to_log, lines 481-491
AttachModelVersion(id, version) ==
    /\ id \in 1 .. Len(audit)
    /\ audit[id].status = "pending"
    /\ audit' = [audit EXCEPT ![id].model_version = version]
    /\ UNCHANGED <<requests, admin_logs, clock, mret, tpc, trk, tout>>

\* COALESCE(?, column)
Coalesce(value, column) == IF value # None THEN value ELSE column

\* every column is set to the value passed
FinalizeRowOverwrites(row, status, response_payload, error_message, workers, version, now) ==
    [status |-> status,
     response_payload |-> response_payload,
     error_message |-> error_message,
     completed_at |-> now,
     workers_allocated |-> workers,
     model_version |-> version]

\* the UPDATE of finalize_request_log, lines 460-470
FinalizeRow(row, status, response_payload, error_message, workers, version, now) ==
    [status |-> status,
     response_payload |-> Coalesce(response_payload, row.response_payload),
     error_message |-> Coalesce(error_message, row.error_message),
     completed_at |-> now,
     workers_allocated |-> workers,
     model_version |-> Coalesce(version, row.model_version)]

\* finalize_request_log, lines 444-479
FinalizeRequestLog(id, status, response_payload, error_message, workers, version) ==
    /\ id \in 1 .. Len(audit)
    /\ audit' = [audit EXCEPT ![id] = FinalizeRow(@, status, response_payload, error_message,
                                                  workers, version, clock)]
    /\ UNCHANGED <<requests, admin_logs, clock, mret, tpc, trk, tout>>

NextAudit ==
    \/ LogRequestStart("n/a") /\ MonFrame
    \/ (\E id \in AuditIds, v \in AuditVersions : AttachModelVersion(id, v)) /\ MonFrame
    \/ (\E id \in AuditIds, st \in {"success", "error"}, rp \in AuditTexts,
           em \in AuditTexts, mv \in {None, "v3"} :
           FinalizeRequestLog(id, st, rp, em, 1, mv)) /\ MonFrame
    \/ Tick /\ MonFrame

SpecAudit == InitApi /\ [][NextAudit]_vars

\* C33: finalize_request_log changes a row's response_payload, error_message
\* and model_version only when the call supplies them, so an attached model
\* version survives a finalize call without model_version; status and
\* completed_at are always set; no other row changes.
C33_FinalizeKeepsUnsuppliedColumns ==
    [][\A id \in AuditIds, st \in {"success", "error"}, rp \in AuditTexts,
          em \in AuditTexts, mv \in {None, "v3"} :
          FinalizeRequestLog(id, st, rp, em, 1, mv) =>
              /\ audit'[id].status = st
              /\ audit'[id].completed_at = clock
              /\ rp = None => audit'[id].response_payload = audit[id].response_payload
              /\ em = None => audit'[id].error_message = audit[id].error_message
              /\ mv = None => audit'[id].model_version = audit[id].model_version
              /\ rp # None => audit'[id].response_payload = rp
              /\ em # None => audit'[id].error_message = em
              /\ mv # None => audit'[id].model_version = mv
              /\ \A other \in 1 .. Len(audit) : other # id => audit'[other] = audit[other]]_vars

\* A finalized row that still carries the model version attached to it and
\* the response stored by an earlier finalize call.
C33_Witness ==
    \E id \in 1 .. Len(audit) :
        /\ audit[id].status = "error"
        /\ audit[id].model_version \in AuditVersions
        /\ audit[id].response_payload # None
        /\ audit[id].error_message # None
        /\ audit[id].completed_at > 0

(***************************************************************************)
(* classifier.model_version beside the pipeline attribute.  train() sets   *)
(* it at line 241, after the new pipeline was assigned (219) and fitted    *)
(* (223); the predict endpoint reads it after future.result() returned     *)
(* (service.py 536).  Training n produces pipeline object n and version n. *)
(***************************************************************************)
\* load_latest, lines 252-255: sorted(...)[-1]
Latest(S) == CHOOSE x \in S : \A y \in S : y <= x

\* train(), lines 241-243: self.model_version = version, _persist_pipeline()
TrainSetVersion ==
    /\ TrainPersist
    /\ model_version' = pipeline
    /\ UNCHANGED <<pver, srvpc>>

\* service.py 536-537: version = classifier.model_version or
\* classifier.load_latest() (model.py 251-258)
PVersion(i) ==
    /\ ptask[i].state = "done"
    /\ ~pver[i].read
    /\ IF model_version # 0
       THEN /\ pver' = [pver EXCEPT ![i] = [read |-> TRUE, version |-> model_version]]
            /\ UNCHANGED <<pipeline, fitted, model_version>>
       ELSE IF registry = {}
       THEN /\ pver' = [pver EXCEPT ![i] = [read |-> TRUE, version |-> 0]]
            /\ UNCHANGED <<pipeline, fitted, model_version>>
       ELSE /\ pipeline' = pipeline + 1
            /\ fitted' = fitted \cup {pipeline + 1}
            /\ model_version' = Latest(registry)
            /\ pver' = [pver EXCEPT ![i] = [read |-> TRUE, version |-> Latest(registry)]]
    /\ UNCHANGED <<registry, trainpc, ptask, srvpc>>

VersionFrame ==
    UNCHANGED <<schedVars, orderVars, repoVars, monVars, mixVars, fsVars, driftVars,
                pollVars, logVars, appendVars, schemaVars, shutVars, retryVars>>

NextVersion ==
    \/ TrainAssign /\ UNCHANGED verVars /\ VersionFrame
    \/ TrainFit /\ UNCHANGED verVars /\ VersionFrame
    \/ TrainSetVersion /\ VersionFrame
    \/ (\E i \in PredictIds : PSubmit(i)) /\ UNCHANGED verVars /\ VersionFrame
    \/ (\E i \in PredictIds : PStart(i)) /\ UNCHANGED verVars /\ VersionFrame
    \/ (\E i \in PredictIds : PScores(i)) /\ UNCHANGED verVars /\ VersionFrame
    \/ (\E i \in PredictIds : PClasses(i)) /\ UNCHANGED verVars /\ VersionFrame
    \/ (\E i \in PredictIds : PVersion(i)) /\ VersionFrame

SpecVersion == InitApi /\ [][NextVersion]_vars

\* C34: the model_version written to a predict request's audit row and
\* response is the version of the pipeline that computed the request's
\* results, also when a training finishes or is in progress meanwhile.
C34_ResponseVersionIsComputingPipeline ==
    \A i \in PredictIds :
        pver[i].read => /\ pver[i].version = ptask[i].scores_by
                        /\ pver[i].version = ptask[i].classes_by

(***************************************************************************)
(* One thread issuing train and activate-model requests (service.py        *)
(* 295-468, 635-645).  train() switches the classifier to the new version; *)
(* the endpoint then registers the Model with activate=True when the       *)
(* metrics pass the thresholds (425-440).  The activate endpoint calls     *)
(* repository.activate_model and nothing else.  save_model_version with    *)
(* activate=True never reaches its commit: the nested activate_model       *)
(* waits for the write lock of the INSERT until the timeout.               *)
(***************************************************************************)
ServeKey == "A"
ServeThread == "p1"

\* the version string of training n
VersionLabel(n) == <<"v1", "v2", "v3">>[n]

ServeBase ==
    UNCHANGED <<schedVars, orderVars, monVars, mixVars, fsVars, driftVars, pollVars,
                logVars, appendVars, schemaVars, shutVars, retryVars>>

\* service.py 388-393: classifier.train(...) is entered
ServeTrain ==
    /\ srvpc = "idle"
    /\ TrainAssign
    /\ srvpc' = "train"
    /\ UNCHANGED <<model_version, pver>>

\* train() returns; lines 421-424: artifact_path, should_persist
ServeTrained ==
    /\ srvpc = "train"
    /\ TrainPersist
    /\ model_version' = pipeline
    /\ srvpc' = "trained"
    /\ UNCHANGED pver

\* lines 426-427 with should_persist false, then the response (441-468)
ServeNotPersisted ==
    /\ srvpc = "trained"
    /\ srvpc' = "idle"
    /\ UNCHANGED <<model_version, pver>>

\* lines 427-437: repository.save_model_version(..., activate=True)
ServeSave ==
    /\ srvpc = "trained"
    /\ CallSave(ServeThread, VersionLabel(model_version), ServeKey, TRUE)
    /\ srvpc' = "saving"
    /\ UNCHANGED <<model_version, pver>>

\* service.py 637: repository.activate_model(version=body.version, ...)
ServeActivate(version) ==
    /\ srvpc = "idle"
    /\ CallActivate(ServeThread, version, ServeKey)
    /\ srvpc' = "activating"
    /\ UNCHANGED <<model_version, pver>>

\* the repository call has ended: the endpoint returns or the error leaves it
ServeReturn ==
    /\ srvpc \in {"saving", "activating"}
    /\ rpc[ServeThread] = "idle"
    /\ srvpc' = "idle"
    /\ UNCHANGED <<model_version, pver>>

NextServe ==
    \/ ServeTrain /\ UNCHANGED repoVars /\ ServeBase
    \/ TrainFit /\ UNCHANGED <<repoVars, verVars>> /\ ServeBase
    \/ ServeTrained /\ UNCHANGED repoVars /\ ServeBase
    \/ ServeNotPersisted /\ UNCHANGED <<repoVars, pipeVars>> /\ ServeBase
    \/ ServeSave /\ UNCHANGED pipeVars /\ ServeBase
    \/ (\E version \in Labels : ServeActivate(version)) /\ UNCHANGED pipeVars /\ ServeBase
    \/ SmInsert(ServeThread) /\ UNCHANGED <<pipeVars, verVars>> /\ ServeBase
    \/ AmArchive(ServeThread) /\ UNCHANGED <<pipeVars, verVars>> /\ ServeBase
    \/ AmActivate(ServeThread) /\ UNCHANGED <<pipeVars, verVars>> /\ ServeBase
    \/ AmCommit(ServeThread) /\ UNCHANGED <<pipeVars, verVars>> /\ ServeBase
    \/ BusyTimeout(ServeThread) /\ UNCHANGED <<pipeVars, verVars>> /\ ServeBase
    \/ ServeReturn /\ UNCHANGED <<repoVars, pipeVars>> /\ ServeBase

SpecServe == InitApi /\ [][NextServe]_vars

\* C35: after any sequence of train and activate-model requests the
\* classifier's in-memory model_version is the version of the active Model
\* of the model key.
C35_ClassifierServesActiveModel ==
    srvpc = "idle" =>
        {db.models[i].version : i \in ActiveOf(db.models, ServeKey)}
            = IF model_version = 0 THEN {} ELSE {VersionLabel(model_version)}

\* C36: when two ingest calls run concurrently both versions end up in the
\* index: once the calls have returned, list_versions() has the version of
\* every ingest that returned.
C36_ConcurrentIngestsBothIndexed ==
    FsQuiescent =>
        \A d \in DOMAIN fs_done :
            \E i \in DOMAIN ListVersions(fs_index) :
                ListVersions(fs_index)[i].version = fs_done[d].meta.version

(***************************************************************************)
(* Row counts kept by persist_dataset.                                     *)
(***************************************************************************)
\* C37: after any sequence of persist_dataset calls (successful or failing,
\* with or without rewrite), for every dataset version the number of stored
\* dataset items with that version_id equals the version's row_count.
C37_ItemsMatchVersionRowCount ==
    \A v \in 1 .. Len(db.versions) :
        Len(ItemsOf(db, v)) = db.versions[v].row_count

\* C37 witness: the first version's items are stored after the second
\* version's: it was rewritten after the second was created, and now has
\* seven rows while the second has ten.
C37_Witness ==
    /\ Len(db.versions) = 2
    /\ db.versions[1].row_count = 7
    /\ db.versions[2].row_count = 10
    /\ \E i, j \in 1 .. Len(db.items) :
          i < j /\ db.items[i].version_id = 2 /\ db.items[j].version_id = 1

\* sum of the row_counts of the versions 1 .. n that belong to dataset did
RECURSIVE VersionRows(_, _, _)
VersionRows(d, did, n) ==
    IF n = 0 THEN 0
    ELSE VersionRows(d, did, n - 1)
           + (IF d.versions[n].dataset_id = did THEN d.versions[n].row_count ELSE 0)

\* C38: after any sequence of persist_dataset calls, a dataset's row_count
\* equals the sum of the row_counts of its versions.
C38_DatasetRowCountIsSumOfVersions ==
    \A did \in 1 .. Len(db.datasets) :
        db.datasets[did].row_count = VersionRows(db, did, Len(db.versions))

(***************************************************************************)
(* The train endpoint around persist_dataset (service.py 368-468), one     *)
(* request per thread of the server's pool.  The steps of the try block    *)
(* (386-412) write the classifier, the reference file, the feature store   *)
(* and the metadata file, none of which persist_dataset reads; each of     *)
(* them can raise.  cleaned_items is never empty here (lines 353-358).     *)
(***************************************************************************)
TryStages == <<"mix", "train", "ingest", "metadata">>

StageAfter(stage) ==
    IF stage = "metadata" THEN "register"
    ELSE TryStages[(CHOOSE i \in 1 .. 3 : TryStages[i] = stage) + 1]

InTry(stage) == \E i \in 1 .. 4 : TryStages[i] = stage

\* a response of the except branch at lines 413-423, for the same dataset
\* and version
FailedAfterPersist(response, name, key, version) ==
    /\ response.status = 500
    /\ InTry(response.stage)
    /\ response.request.name = name
    /\ response.request.key = key
    /\ response.request.version = version

Respond(p, status) ==
    /\ tr_resp' = [tr_resp EXCEPT ![p] =
                      [status |-> status, stage |-> tr_pc[p], request |-> tr_req[p]]]
    /\ tr_pc' = [tr_pc EXCEPT ![p] = "idle"]
    /\ UNCHANGED tr_req

\* lines 368-378: repository.persist_dataset(version_label=payload.version, ...)
TrainRequest(p, name, key, version, payload, rewrite) ==
    /\ tr_pc[p] = "idle"
    /\ payload # <<>>
    /\ CallPersist(p, name, key, version, payload, rewrite)
    /\ tr_req' = [tr_req EXCEPT ![p] =
                     [name |-> name, key |-> key, version |-> version,
                      rewrite |-> rewrite,
                      repeat |-> \E q \in Procs :
                                    FailedAfterPersist(tr_resp[q], name, key, version)]]
    /\ tr_pc' = [tr_pc EXCEPT ![p] = "persist"]
    /\ UNCHANGED tr_resp

\* lines 379-384: DatasetVersionExists becomes 409; another error of the
\* repository leaves the endpoint as a 500; otherwise the try block begins
TrainPersisted(p) ==
    /\ tr_pc[p] = "persist"
    /\ rpc[p] = "idle"
    /\ IF rres[p].status = "ok"
       THEN /\ tr_pc' = [tr_pc EXCEPT ![p] = "mix"]
            /\ UNCHANGED <<tr_req, tr_resp>>
       ELSE Respond(p, IF rres[p].status = "DatasetVersionExists" THEN 409 ELSE 500)

\* lines 386-412: the step at hand returns
TrainStage(p) ==
    /\ InTry(tr_pc[p])
    /\ tr_pc' = [tr_pc EXCEPT ![p] = StageAfter(tr_pc[p])]
    /\ UNCHANGED <<tr_req, tr_resp>>

\* lines 413-423: the step at hand raises
TrainStageFails(p) ==
    /\ InTry(tr_pc[p])
    /\ Respond(p, 500)

\* lines 425-426, 441-468: should_persist is false
TrainRespond(p) ==
    /\ tr_pc[p] = "register"
    /\ Respond(p, 200)

\* lines 427-437: repository.save_model_version(..., activate=True)
TrainSave(p) ==
    /\ tr_pc[p] = "register"
    /\ CallSave(p, tr_req[p].version, tr_req[p].key, TRUE)
    /\ tr_pc' = [tr_pc EXCEPT ![p] = "save"]
    /\ UNCHANGED <<tr_req, tr_resp>>

\* save_model_version has returned or raised
TrainSaved(p) ==
    /\ tr_pc[p] = "save"
    /\ rpc[p] = "idle"
    /\ Respond(p, IF rres[p].status = "ok" THEN 200 ELSE 500)

RetryInputs == {Seven}
RetryVersions == {"v1"}

RetryFrame ==
    UNCHANGED <<schedVars, orderVars, monVars, mixVars, pipeVars, fsVars, driftVars,
                pollVars, logVars, appendVars, schemaVars, shutVars, verVars>>

NextRetry ==
    \/ (\E p \in Procs, name \in DatasetNames, key \in PersistKeys, version \in RetryVersions,
           payload \in RetryInputs, rewrite \in BOOLEAN :
           TrainRequest(p, name, key, version, payload, rewrite)) /\ RetryFrame
    \/ (\E p \in Procs : PdSelectDataset(p)) /\ UNCHANGED retryVars /\ RetryFrame
    \/ (\E p \in Procs : PdInsertDataset(p)) /\ UNCHANGED retryVars /\ RetryFrame
    \/ (\E p \in Procs : PdSelectVersion(p)) /\ UNCHANGED retryVars /\ RetryFrame
    \/ (\E p \in Procs : PdWrite(p)) /\ UNCHANGED retryVars /\ RetryFrame
    \/ (\E p \in Procs : PdCommit(p)) /\ UNCHANGED retryVars /\ RetryFrame
    \/ (\E p \in Procs : SmInsert(p)) /\ UNCHANGED retryVars /\ RetryFrame
    \/ (\E p \in Procs : BusyTimeout(p)) /\ UNCHANGED retryVars /\ RetryFrame
    \/ (\E p \in Procs : TrainPersisted(p)) /\ UNCHANGED repoVars /\ RetryFrame
    \/ (\E p \in Procs : TrainStage(p)) /\ UNCHANGED repoVars /\ RetryFrame
    \/ (\E p \in Procs : TrainStageFails(p)) /\ UNCHANGED repoVars /\ RetryFrame
    \/ (\E p \in Procs : TrainRespond(p)) /\ UNCHANGED repoVars /\ RetryFrame
    \/ (\E p \in Procs : TrainSave(p)) /\ RetryFrame
    \/ (\E p \in Procs : TrainSaved(p)) /\ UNCHANGED repoVars /\ RetryFrame

SpecRetry == InitApi /\ [][NextRetry]_vars

CountedAs(state, pc) ==
    {t \in Tasks : /\ future[t] = state
                   /\ ~\E w \in WorkerIds : wpc[w] = pc /\ wtask[w][2] = t}

====
